---- MODULE Spec2Model ----
(***************************************************************************)
(* A model of the CRA runtime services (cra/runtime/services): the Tracer, *)
(* the SessionManager, the Resolver with the PolicyEngine it consults, and *)
(* the ActionExecutor.                                                     *)
(*                                                                         *)
(* Scheduling.  The services are asyncio coroutines of one event loop.  A  *)
(* coroutine is only suspended where it awaits something that is not yet   *)
(* ready.  asyncio.Lock.acquire returns without suspending when the lock   *)
(* is free, and no service suspends while it holds one of the locks, so    *)
(* the locks are never contended and every service method runs from its    *)
(* first to its last statement without another task in between.  The one   *)
(* exception is ActionExecutor.execute, which awaits the action handler:   *)
(* a registered handler may suspend, and other requests run meanwhile.     *)
(* execute is therefore two actions, ExecuteStart (up to the dispatch of   *)
(* the handler) and ExecuteFinish (from the handler's return or raise).    *)
(*                                                                         *)
(* Identifiers.  uuid4() values are modelled as fresh naturals: a session  *)
(* id is the session's index in sessions, and trace i is the root trace    *)
(* the i-th session was created with.                                      *)
(***************************************************************************)
EXTENDS Naturals, Integers, Sequences, FiniteSets, TLC

\* ---------------------------------------------------------------- bounds
\* The sessions a run creates, and the steps it takes: a step is an event
\* appended to a log, a grant created, a request a rate limit rule recorded or
\* a tick of the clock.
MaxSessions == 2
MaxSteps == 4
\* The rules a policy engine holds.
MaxRules == 3
\* The queues subscribed to one trace at a time.
MaxSubscribers == 2
\* The events a subscriber's queue holds: subscribe builds its queue with
\* maxsize=1000, and a run here fills a queue of this many.
QueueMaxSize == 2

\* ------------------------------------------------------ program constants
MinTtl == 60
MaxTtl == 86400
DefaultLimit == 100

None == -1

SessionIds == 1..MaxSessions
TraceIds == 1..MaxSessions
\* Resolution ids are 1, 2, ... in the order resolve returns them; 0 stands
\* for a resolution id that no resolve has returned.
ActionIds == {"cra.echo", "cra.noop"}
RiskTiers == {"low", "high"}
\* Task goals, by what the deny patterns of the default policy make of them.
Goals == {"Echo a friendly message", "Deploy to production environment"}
\* Session TTLs a create request asks for (all within [MinTtl, MaxTtl]).
Ttls == {MinTtl, MaxTtl}
\* ttl_seconds a client may write into a create request.
RequestTtls == Ttls \cup {MinTtl - 1, MaxTtl + 1}
\* ttl_seconds a caller of grant_action passes.
GrantTtls == {MinTtl}
\* Grant and execution ids a request may name: the ids drawn within MaxSteps
\* steps (an id not drawn yet is an unknown id).
GrantIds == 1..MaxSteps
ExecutionIds == 1..MaxSteps
\* Resolution ids a caller of grant_action and execute passes.
ResolutionIds == {0, 1}
\* What the awaited handler does: it returns ("none") or raises an exception
\* of the named type.
HandlerRaises == {"none", "ValueError", "RuntimeError"}
\* What execute sees of the awaited handler: what the handler does, or
\* ("unhashable") a returned result json.dumps(sort_keys=True) cannot
\* serialise (a dict with tuple keys or keys of mixed types), so that
\* _hash_json raises TypeError after status and result were assigned.
HandlerOutcomes == HandlerRaises \cup {"unhashable"}
\* The type name of the exception execute catches for a handler outcome.
ErrorType(raised) == IF raised = "unhashable" THEN "TypeError" ELSE raised
\* Principals and action ids of policy contexts ("None": no action_id), and
\* the keys a RateLimitRule files its requests under.
Principals == {"alice"}
ContextActionIds == {"None", "cra.echo"}
RateKeys == Principals \X {"any", "cra.echo"}
\* Atlas directories: the paths a caller loads, the ids their manifests
\* carry, the files a manifest may declare (a context pack and a policy), and
\* what load finds at a path: the state of atlas.json, what it declares and
\* which of the files exist.
AtlasPaths == {"atlases/a", "atlases/b"}
AtlasIds == {"com.example.atlas"}
AtlasFiles == {"context/overview.md", "policies/default.json"}
AtlasDirs ==
  [path : AtlasPaths, manifest : {"missing", "malformed", "ok"}, id : AtlasIds,
   declared : SUBSET AtlasFiles, present : SUBSET AtlasFiles]
\* No LoadedAtlas: a path not in the cache, an id not in the registry.
NoAtlas == [id |-> "None"]
\* The session the client of the executor names in its requests; the trace
\* it names is that session's root trace.
ExecutorSessions == {1}

VARIABLES
  now,                \* datetime.utcnow(), in seconds
  sessions,           \* SessionManager._sessions
  events,             \* Tracer._events
  grants,             \* ActionExecutor._grants, in insertion order
  next_grant,         \* number of grant ids drawn so far
  executions,         \* ActionExecutor._executions
  pending_approvals,  \* ActionExecutor._pending_approvals (its keys)
  resolutions,        \* the Resolutions resolve has returned, by resolution_id
  last,               \* what the last call returned or raised
  seen,               \* per trace, the last unfiltered get_events result
  ended,              \* the sessions for which end_session has returned
  rejected,           \* the grants reject_action has removed
  atlas_cache,        \* AtlasLoader._cache, by path
  atlases,            \* AtlasRegistry._atlases, by atlas id
  subscribers,        \* Tracer._subscribers: per trace, the subscribers' queues
  streams,            \* per trace and queue, what the open stream has yielded
  engine_rules,       \* PolicyEngine._rules
  requests,           \* RateLimitRule._requests, by rule and key
  passed,             \* by rule and key, the timestamps the rule let pass
  last_decision       \* what the last PolicyEngine.evaluate returned

vars == <<now, sessions, events, grants, next_grant, executions,
          pending_approvals, resolutions, last, seen, ended, rejected,
          subscribers, streams, engine_rules, requests, passed, last_decision,
          atlas_cache, atlases>>

sessionVars == <<sessions, ended>>
executorVars == <<grants, next_grant, executions, pending_approvals, rejected>>
policyVars == <<engine_rules, requests, passed, last_decision>>
atlasVars == <<atlas_cache, atlases>>

\* ---------------------------------------------------------------- Tracer

\* TraceEvent: the fields of the event the services set.  ref is the
\* execution, grant or resolution the payload names (0 when none), tag the
\* payload's reason, status or rule_id ("" when none).  span_id is the span
\* a caller passes to emit to tie events together; it is kept for the events
\* of resolve and is 0 for every other event.
Event(event_type, session_id, severity, ref, tag) ==
  [event_type |-> event_type, session_id |-> session_id, severity |-> severity,
   ref |-> ref, tag |-> tag, span_id |-> 0]

\* The event emitted with span_id given.
WithSpan(event, span_id) == [event EXCEPT !.span_id = span_id]

\* emit with the trace's list set to the new event alone.
EmitOverwriting(evs, trace_id, event) ==
  [evs EXCEPT ![trace_id] = <<event>>]

\* emit with the event put in front of the trace's list instead of behind it.
EmitInFront(evs, trace_id, event) ==
  [evs EXCEPT ![trace_id] = <<event>> \o @]

\* Tracer.emit on the log table evs: append to the trace's list.
Emit(evs, trace_id, event) ==
  [evs EXCEPT ![trace_id] = Append(@, event)]

\* asyncio.Queue.put_nowait inside emit's try/except QueueFull: a full queue
\* stays as it is.
PutNowait(queue, event) ==
  IF Len(queue) >= QueueMaxSize THEN queue ELSE Append(queue, event)

\* The loop over the queues ending at the first full queue, as it would with
\* QueueFull caught outside the loop.
DeliverUntilFull(subs, trace_id, event) ==
  LET qs == subs[trace_id]
      full == {i \in 1..Len(qs) : Len(qs[i]) >= QueueMaxSize}
  IN [subs EXCEPT ![trace_id] =
        [i \in 1..Len(qs) |->
           IF \E j \in full : j <= i THEN qs[i] ELSE Append(qs[i], event)]]

\* Tracer.emit, "Notify subscribers": the trace's queues after the loop.
Deliver(subs, trace_id, event) ==
  [subs EXCEPT ![trace_id] = [i \in 1..Len(@) |-> PutNowait(@[i], event)]]

\* The streams of the trace's subscribers after an emit: a stream whose queue
\* was full has one more event dropped.
StreamsAfterEmit(strs, subs, trace_id) ==
  [strs EXCEPT ![trace_id] =
     [i \in 1..Len(@) |->
        IF Len(subs[trace_id][i]) >= QueueMaxSize
        THEN [@[i] EXCEPT !.dropped = @ + 1]
        ELSE @[i]]]

\* Tracer.get_all_events_for_session: the events of a session in all traces.
RECURSIVE CountSession(_, _)
CountSession(log, session_id) ==
  IF log = <<>> THEN 0
  ELSE (IF Head(log).session_id = session_id THEN 1 ELSE 0)
       + CountSession(Tail(log), session_id)

RECURSIVE SumOver(_, _, _)
SumOver(evs, traces, session_id) ==
  IF traces = {} THEN 0
  ELSE LET t == CHOOSE x \in traces : TRUE
       IN CountSession(evs[t], session_id) + SumOver(evs, traces \ {t}, session_id)

NumEventsForSession(evs, session_id) == SumOver(evs, TraceIds, session_id)

RECURSIVE TotalEvents(_, _)
TotalEvents(evs, traces) ==
  IF traces = {} THEN 0
  ELSE LET t == CHOOSE x \in traces : TRUE
       IN Len(evs[t]) + TotalEvents(evs, traces \ {t})

\* The requests the rate limit rules have let pass, over the (rule, key)
\* pairs in ps.
RECURSIVE TotalPassed(_, _)
TotalPassed(table, ps) ==
  IF ps = {} THEN 0
  ELSE LET p == CHOOSE x \in ps : TRUE
       IN Len(table[p[1]][p[2]]) + TotalPassed(table, ps \ {p})

\* The steps taken so far, and whether n more fit in MaxSteps.
Steps ==
  TotalEvents(events, TraceIds) + next_grant + (now \div MinTtl)
  + TotalPassed(passed, (DOMAIN passed) \X RateKeys)

Room(n) == Steps + n <= MaxSteps

Min(a, b) == IF a <= b THEN a ELSE b

\* Tracer.get_events without filters: the page [offset, offset + limit).
Page(log, limit, offset) == SubSeq(log, offset + 1, Min(Len(log), offset + limit))

IsPrefix(s, t) == Len(s) <= Len(t) /\ SubSeq(t, 1, Len(s)) = s

\* Tracer.get_events(trace_id) with its default arguments.
GetEvents(trace_id) ==
  /\ seen' = [seen EXCEPT ![trace_id] = Page(events[trace_id], DefaultLimit, 0)]
  /\ last' = [op |-> "get_events", out |-> "ok"]
  /\ UNCHANGED <<now, events, sessionVars, executorVars, resolutions,
                 subscribers, streams, policyVars, atlasVars>>

\* -------------------------------------------------------- SessionManager

NoStats == [resolutions |-> 0, actions_executed |-> 0, actions_failed |-> 0,
            total_events |-> 0]

Known(session_id) == session_id \in 1..Len(sessions)

\* A trace id a client can name: that of a session created before.  The
\* trace_id of a session is a fresh uuid4, which no request made before the
\* session was created can hold.
TraceKnown(trace_id) == \E sid \in 1..Len(sessions) : sessions[sid].trace_id = trace_id

\* Session.is_active
IsActive(s) == s.state = "active" /\ now < s.expires_at

\* Session.end
SessionEnd(s) == [s EXCEPT !.state = "ended", !.ended_at = now]

\* Session.expire
SessionExpire(s) == [s EXCEPT !.state = "expired", !.ended_at = now]

\* The bounds with both ends shut out.
TtlValidExclusive(ttl_seconds) == ttl_seconds > MinTtl /\ ttl_seconds < MaxTtl

\* CreateSessionRequest.ttl_seconds: Field(ge=60, le=86400).
TtlValid(ttl_seconds) == ttl_seconds >= MinTtl /\ ttl_seconds <= MaxTtl

\* The construction of the CreateSessionRequest, which raises the validation
\* error, and SessionManager.create_session on the request.
CreateSession(ttl_seconds) ==
  /\ IF ~TtlValid(ttl_seconds)
     THEN /\ last' = [op |-> "create_session", out |-> "ValidationError"]
          /\ UNCHANGED <<sessions, events>>
     ELSE /\ Len(sessions) < MaxSessions
          /\ LET sid == Len(sessions) + 1
                 s == [state |-> "active", trace_id |-> sid, created_at |-> now,
                       expires_at |-> now + ttl_seconds, ended_at |-> None,
                       stats |-> NoStats]
             IN /\ Room(1)
                /\ sessions' = Append(sessions, s)
                /\ events' = Emit(events, s.trace_id,
                                  Event("trace.session.started", sid, "info", 0, ""))
          /\ last' = [op |-> "create_session", out |-> "ok"]
  /\ UNCHANGED <<now, ended, executorVars, resolutions, seen, subscribers, streams, policyVars, atlasVars>>

\* SessionManager.end_session
EndSession(session_id) ==
  IF ~Known(session_id)
  THEN /\ last' = [op |-> "end_session", out |-> "SessionNotFound"]
       /\ UNCHANGED <<now, events, sessionVars, executorVars, resolutions, seen, subscribers, streams, policyVars, atlasVars>>
  ELSE LET s0 == SessionEnd(sessions[session_id])
           s == [s0 EXCEPT !.stats.total_events =
                               NumEventsForSession(events, session_id)]
       IN /\ Room(1)
          /\ sessions' = [sessions EXCEPT ![session_id] = s]
          /\ events' = Emit(events, s.trace_id,
                            Event("trace.session.ended", session_id, "info", 0, ""))
          /\ ended' = ended \cup {session_id}
          /\ last' = [op |-> "end_session", out |-> "ok"]
          /\ UNCHANGED <<now, executorVars, resolutions, seen, subscribers, streams, policyVars, atlasVars>>

\* get_session without its test that the state is still active.
GetSessionOutcomeNoStateTest(session_id) ==
  IF ~Known(session_id) THEN "SessionNotFound"
  ELSE IF sessions[session_id].state = "active" /\ ~IsActive(sessions[session_id])
       THEN "expire"
  ELSE "ok"

\* get_session expiring on the clock alone, whatever the state is.
GetSessionOutcomeClockOnly(session_id) ==
  IF ~Known(session_id) THEN "SessionNotFound"
  ELSE IF now >= sessions[session_id].expires_at THEN "expire"
  ELSE IF sessions[session_id].state # "active" THEN "SessionExpired"
  ELSE "ok"

\* What SessionManager.get_session does for session_id.
GetSessionOutcome(session_id) ==
  IF ~Known(session_id) THEN "SessionNotFound"
  ELSE IF sessions[session_id].state = "active" /\ ~IsActive(sessions[session_id])
       THEN "expire"
  ELSE IF sessions[session_id].state # "active" THEN "SessionExpired"
  ELSE "ok"

\* The session table and the log table after get_session(session_id).
SessionsAfterGet(session_id) ==
  IF GetSessionOutcome(session_id) = "expire"
  THEN [sessions EXCEPT ![session_id] = SessionExpire(@)]
  ELSE sessions

EventsAfterGet(session_id) ==
  IF GetSessionOutcome(session_id) = "expire"
  THEN Emit(events, sessions[session_id].trace_id,
            Event("trace.session.ended", session_id, "warn", 0, "expired"))
  ELSE events

GetRaises(session_id) ==
  IF GetSessionOutcome(session_id) = "expire" THEN "SessionExpired"
  ELSE GetSessionOutcome(session_id)

\* SessionManager.get_session
GetSession(session_id) ==
  /\ GetSessionOutcome(session_id) = "expire" =>
       Room(1)
  /\ sessions' = SessionsAfterGet(session_id)
  /\ events' = EventsAfterGet(session_id)
  /\ last' = [op |-> "get_session", out |-> GetRaises(session_id)]
  /\ UNCHANGED <<now, ended, executorVars, resolutions, seen, subscribers, streams, policyVars, atlasVars>>

\* SessionManager.increment_resolution_count
IncrementResolutionCount(ss, session_id) ==
  IF session_id \in 1..Len(ss)
  THEN [ss EXCEPT ![session_id].stats.resolutions = @ + 1]
  ELSE ss

\* increment_action_count losing the update of a failed action.
IncrementActionCountDropsFailed(ss, session_id, failed) ==
  IF session_id \in 1..Len(ss) /\ ~failed
  THEN [ss EXCEPT ![session_id].stats.actions_executed = @ + 1]
  ELSE ss

\* SessionManager.increment_action_count
IncrementActionCount(ss, session_id, failed) ==
  IF session_id \in 1..Len(ss)
  THEN IF failed
       THEN [ss EXCEPT ![session_id].stats.actions_failed = @ + 1]
       ELSE [ss EXCEPT ![session_id].stats.actions_executed = @ + 1]
  ELSE ss

\* ---------------------------------------------------------- PolicyEngine

\* PolicyEngine._setup_default_rules: the rules of a fresh engine, in order.
DefaultRules ==
  << [kind |-> "deny_pattern", rule_id |-> "deny-dangerous-commands"],
     [kind |-> "risk_approval", rule_id |-> "high-risk-approval"],
     [kind |-> "redaction", rule_id |-> "redact-secrets"] >>

\* DenyPatternRule: whether one of the rule's patterns matches a candidate
\* of the goal.  "*.production.*" matches the normalized form
\* "deploy.to.production.environment"; no default pattern matches the other goal.
DenyPatternMatches(goal) == goal = "Deploy to production environment"

\* RateLimitRule instances an engine may be given.
RateLimitRules ==
  { [kind |-> "rate_limit", rule_id |-> "rate-2-per-120",
     max_requests |-> 2, window_seconds |-> 120] }

RateLimitRuleIds == {r.rule_id : r \in RateLimitRules}

\* The rules an engine may hold: the default rules and the rate limit rules.
RuleSet == {DefaultRules[i] : i \in 1..Len(DefaultRules)} \cup RateLimitRules

\* A rule of the caller's own, a PolicyRule subclass added with add_rule,
\* whose evaluate raises an exception.
RaisingRule == [kind |-> "raising", rule_id |-> "custom-raising"]

\* Rule lists of up to MaxRules different rules that hold the raising rule.
RuleListsRaising ==
  UNION { {q \in [1..n -> RuleSet \cup {RaisingRule}] :
             /\ \A i, j \in 1..n : i # j => q[i] # q[j]
             /\ \E i \in 1..n : q[i] = RaisingRule} :
          n \in 1..MaxRules }

\* Rule lists of up to MaxRules different rules, in any order.
RuleLists ==
  UNION { {q \in [1..n -> RuleSet] : \A i, j \in 1..n : i # j => q[i] # q[j]} :
          n \in 0..MaxRules }

\* The policy contexts a caller builds, before the timestamp is filled in.
Contexts ==
  [session_id : {1}, risk_tier : RiskTiers, goal : Goals,
   metadata : {{}, {"password"}}, principal_id : Principals,
   action_id : ContextActionIds]

\* PolicyContext.timestamp: the default, the time the context is built at.
ContextAt(c, ts) ==
  [session_id |-> c.session_id, risk_tier |-> c.risk_tier, goal |-> c.goal,
   metadata |-> c.metadata, principal_id |-> c.principal_id,
   action_id |-> c.action_id, timestamp |-> ts]

\* RateLimitRule.evaluate: the key, f"{principal_id}:{action_id or 'any'}".
RateKey(ctx) ==
  <<ctx.principal_id, IF ctx.action_id = "None" THEN "any" ELSE ctx.action_id>>

\* RateLimitRule.evaluate: the key's requests inside the window.
RateLimitRecent(rule, ctx) ==
  SelectSeq(requests[rule.rule_id][RateKey(ctx)],
            LAMBDA t : t > ctx.timestamp - rule.window_seconds)

\* The limit test comparing with > instead of >=.
RateLimitExceededOffByOne(rule, ctx) ==
  Len(RateLimitRecent(rule, ctx)) > rule.max_requests

\* RateLimitRule.evaluate: the limit test.
RateLimitExceeded(rule, ctx) ==
  Len(RateLimitRecent(rule, ctx)) >= rule.max_requests

\* RateLimitRule.evaluate: the key's list after the evaluation at `list`.
RateLimitRecord(rule, ctx, list) ==
  IF RateLimitExceeded(rule, ctx) THEN list ELSE Append(list, ctx.timestamp)

\* PolicyContext as the Resolver builds it (no action_id, resource, metadata).
PolicyContext(session_id, risk_tier, goal) ==
  [session_id |-> session_id, risk_tier |-> risk_tier, goal |-> goal,
   metadata |-> {}]

NoDecision == [effect |-> "none"]

\* PolicyRule.evaluate of the default rule kinds and of RateLimitRule.
\* redactions are the patterns of RedactionRule that match a metadata key
\* (the metadata is given by the patterns its keys match); no rule class
\* sets constraints.  For a rule whose evaluate raises, the effect "raise"
\* stands for the exception and rule_id names the rule it left.
RuleEvaluate(rule, ctx) ==
  CASE rule.kind = "deny_pattern" ->
         IF DenyPatternMatches(ctx.goal)
         THEN [effect |-> "deny", rule_id |-> rule.rule_id,
               violations |-> <<rule.rule_id>>, requires_approval |-> FALSE,
               constraints |-> {}, redactions |-> {}]
         ELSE NoDecision
    [] rule.kind = "risk_approval" ->
         IF ctx.risk_tier = "high"
         THEN [effect |-> "require_approval", rule_id |-> rule.rule_id,
               violations |-> <<>>, requires_approval |-> TRUE,
               constraints |-> {}, redactions |-> {}]
         ELSE NoDecision
    [] rule.kind = "redaction" ->
         IF ctx.metadata # {}
         THEN [effect |-> "allow_with_constraints", rule_id |-> rule.rule_id,
               violations |-> <<>>, requires_approval |-> FALSE,
               constraints |-> {}, redactions |-> ctx.metadata]
         ELSE NoDecision
    [] rule.kind = "rate_limit" ->
         IF RateLimitExceeded(rule, ctx)
         THEN [effect |-> "deny", rule_id |-> rule.rule_id,
               violations |-> <<rule.rule_id>>, requires_approval |-> FALSE,
               constraints |-> {}, redactions |-> {}]
         ELSE NoDecision
    [] rule.kind = "raising" ->
         [effect |-> "raise", rule_id |-> rule.rule_id,
          violations |-> <<>>, requires_approval |-> FALSE,
          constraints |-> {}, redactions |-> {}]

\* The loop with ALLOW_WITH_CONSTRAINTS taking the place of any running
\* effect, not only of ALLOW.
RECURSIVE EvaluateFromConstraintsOverride(_, _, _, _)
EvaluateFromConstraintsOverride(rules, i, ctx, acc) ==
  IF i > Len(rules) THEN acc
  ELSE LET d == RuleEvaluate(rules[i], ctx)
       IN IF d.effect = "none"
          THEN EvaluateFromConstraintsOverride(rules, i + 1, ctx, acc)
          ELSE LET viol == acc.violations \o d.violations
                   appr == acc.requires_approval \/ d.requires_approval
                   cons == acc.constraints \cup d.constraints
                   red == acc.redactions \cup d.redactions
               IN IF d.effect = "deny"
                  THEN [effect |-> "deny", rule_id |-> d.rule_id,
                        violations |-> viol, requires_approval |-> FALSE,
                        constraints |-> {}, redactions |-> {}]
                  ELSE EvaluateFromConstraintsOverride(rules, i + 1, ctx,
                         [effect |-> d.effect, rule_id |-> d.rule_id,
                          violations |-> viol, requires_approval |-> appr,
                          constraints |-> cons, redactions |-> red])

\* The loop with the deny decision carrying the redactions collected so far.
RECURSIVE EvaluateFromDenyKeepsRedactions(_, _, _, _)
EvaluateFromDenyKeepsRedactions(rules, i, ctx, acc) ==
  IF i > Len(rules) THEN acc
  ELSE LET d == RuleEvaluate(rules[i], ctx)
       IN IF d.effect = "none"
          THEN EvaluateFromDenyKeepsRedactions(rules, i + 1, ctx, acc)
          ELSE LET viol == acc.violations \o d.violations
                   appr == acc.requires_approval \/ d.requires_approval
                   cons == acc.constraints \cup d.constraints
                   red == acc.redactions \cup d.redactions
               IN IF d.effect = "deny"
                  THEN [effect |-> "deny", rule_id |-> d.rule_id,
                        violations |-> viol, requires_approval |-> FALSE,
                        constraints |-> cons, redactions |-> red]
                  ELSE IF d.effect = "require_approval"
                  THEN EvaluateFromDenyKeepsRedactions(rules, i + 1, ctx,
                         [effect |-> "require_approval", rule_id |-> d.rule_id,
                          violations |-> viol, requires_approval |-> appr,
                          constraints |-> cons, redactions |-> red])
                  ELSE IF acc.effect = "allow"
                  THEN EvaluateFromDenyKeepsRedactions(rules, i + 1, ctx,
                         [effect |-> "allow_with_constraints", rule_id |-> d.rule_id,
                          violations |-> viol, requires_approval |-> appr,
                          constraints |-> cons, redactions |-> red])
                  ELSE EvaluateFromDenyKeepsRedactions(rules, i + 1, ctx,
                         [acc EXCEPT !.violations = viol, !.requires_approval = appr,
                                     !.constraints = cons, !.redactions = red])

\* The loop of PolicyEngine.evaluate from rule i on, acc the running decision.
\* The call of rule.evaluate stands in no try block: an exception of a rule
\* leaves the loop and evaluate with it.
RECURSIVE EvaluateFrom(_, _, _, _)
EvaluateFrom(rules, i, ctx, acc) ==
  IF i > Len(rules) THEN acc
  ELSE LET d == RuleEvaluate(rules[i], ctx)
       IN IF d.effect = "none" THEN EvaluateFrom(rules, i + 1, ctx, acc)
          ELSE IF d.effect = "raise" THEN d
          ELSE LET viol == acc.violations \o d.violations
                   appr == acc.requires_approval \/ d.requires_approval
                   cons == acc.constraints \cup d.constraints
                   red == acc.redactions \cup d.redactions
               IN IF d.effect = "deny"
                  THEN [effect |-> "deny", rule_id |-> d.rule_id,
                        violations |-> viol, requires_approval |-> FALSE,
                        constraints |-> {}, redactions |-> {}]
                  ELSE IF d.effect = "require_approval"
                  THEN EvaluateFrom(rules, i + 1, ctx,
                         [effect |-> "require_approval", rule_id |-> d.rule_id,
                          violations |-> viol, requires_approval |-> appr,
                          constraints |-> cons, redactions |-> red])
                  ELSE IF acc.effect = "allow"
                  THEN EvaluateFrom(rules, i + 1, ctx,
                         [effect |-> "allow_with_constraints", rule_id |-> d.rule_id,
                          violations |-> viol, requires_approval |-> appr,
                          constraints |-> cons, redactions |-> red])
                  ELSE EvaluateFrom(rules, i + 1, ctx,
                         [acc EXCEPT !.violations = viol, !.requires_approval = appr,
                                     !.constraints = cons, !.redactions = red])

\* PolicyEngine.evaluate
Evaluate(rules, ctx) ==
  EvaluateFrom(rules, 1, ctx,
    [effect |-> "allow", rule_id |-> "", violations |-> <<>>,
     requires_approval |-> FALSE, constraints |-> {}, redactions |-> {}])

\* The positions of rs whose rule PolicyEngine.evaluate evaluates: those
\* with no denying and no raising rule before them.
EvaluatedRules(rs, ctx) ==
  {i \in 1..Len(rs) :
     \A j \in 1..(i - 1) : RuleEvaluate(rs[j], ctx).effect \notin {"deny", "raise"}}

\* The rate limit rules among the evaluated ones.
EvaluatedRateLimits(rs, ctx) ==
  {rs[i] : i \in {j \in EvaluatedRules(rs, ctx) : rs[j].kind = "rate_limit"}}

\* The table of the rate limit rules (_requests, or the record of what they
\* let pass) after PolicyEngine.evaluate; prune tells whether the lists lose
\* the entries outside the window.
RateTableAfter(table, rs, ctx, prune) ==
  [id \in DOMAIN table |->
     IF \E r \in EvaluatedRateLimits(rs, ctx) : r.rule_id = id
     THEN LET r == CHOOSE x \in EvaluatedRateLimits(rs, ctx) : x.rule_id = id
          IN [table[id] EXCEPT ![RateKey(ctx)] =
                RateLimitRecord(r, ctx,
                  IF prune THEN RateLimitRecent(r, ctx) ELSE @)]
     ELSE table[id]]

\* The requests an evaluation records.
NumRecorded(rs, ctx) ==
  Cardinality({r \in EvaluatedRateLimits(rs, ctx) : ~RateLimitExceeded(r, ctx)})

\* A call of PolicyEngine.evaluate on the engine's rules, with the context c
\* built at the time of the call.
EvaluateCall(c) ==
  /\ Room(NumRecorded(engine_rules, ContextAt(c, now)))
  /\ last_decision' = Evaluate(engine_rules, ContextAt(c, now))
  /\ requests' = RateTableAfter(requests, engine_rules, ContextAt(c, now), TRUE)
  /\ passed' = RateTableAfter(passed, engine_rules, ContextAt(c, now), FALSE)
  /\ last' = [op |-> "evaluate",
              out |-> Evaluate(engine_rules, ContextAt(c, now)).effect]
  /\ UNCHANGED <<now, events, sessionVars, executorVars, resolutions, seen,
                 subscribers, streams, engine_rules, atlasVars>>

\* -------------------------------------------------------------- Resolver

\* Resolver._perform_resolution: the requires_approval an allowed action is
\* declared with, before policy and risk tier are taken into account.
IntrinsicApproval == [a \in ActionIds |-> FALSE]

\* Resolver._perform_resolution: requires_approval of each allowed action.
AllowedActions(decision, risk_tier) ==
  [a \in ActionIds |->
     IF a = "cra.echo"
     THEN decision.requires_approval \/ risk_tier = "high"
     ELSE FALSE]

\* span_id = uuid4() in resolve: a span no earlier resolve has used, the
\* resolves being numbered by their requested events.
NewSpan ==
  1 + Cardinality({x \in TraceIds \X (1..MaxSteps) :
                     /\ x[2] <= Len(events[x[1]])
                     /\ events[x[1]][x[2]].event_type
                          = "trace.carp.resolve.requested"})

\* resolve going on to the resolution whatever the policy decision is.
ResolveActiveIgnoringDeny(session_id, trace_id, risk_tier, goal) ==
  LET d == Evaluate(DefaultRules, PolicyContext(session_id, risk_tier, goal))
      requested == Emit(events, trace_id,
                     WithSpan(Event("trace.carp.resolve.requested", session_id,
                                    "info", 0, ""), NewSpan))
  IN /\ Room(2)
     /\ resolutions' = Append(resolutions,
                         [session_id |-> session_id,
                          risk_tier |-> risk_tier,
                          policy_requires_approval |-> d.requires_approval,
                          allowed_actions |-> AllowedActions(d, risk_tier)])
     /\ sessions' = IncrementResolutionCount(sessions, session_id)
     /\ events' = Emit(requested, trace_id,
                    WithSpan(Event("trace.carp.resolve.returned", session_id, "info",
                          Len(resolutions) + 1, d.effect), NewSpan))
     /\ last' = [op |-> "resolve", out |-> "ok"]

\* resolve emitting its closing event before its requested event.
ResolveActiveClosingFirst(session_id, trace_id, risk_tier, goal) ==
  LET d == Evaluate(DefaultRules, PolicyContext(session_id, risk_tier, goal))
      requested == WithSpan(Event("trace.carp.resolve.requested", session_id,
                                  "info", 0, ""), NewSpan)
  IN IF d.effect = "deny"
     THEN /\ Room(2)
          /\ events' = Emit(Emit(events, trace_id,
                              WithSpan(Event("trace.carp.policy.denied", session_id,
                                             "warn", 0, d.rule_id), NewSpan)),
                            trace_id, requested)
          /\ last' = [op |-> "resolve", out |-> "PolicyDenied"]
          /\ UNCHANGED <<sessions, resolutions>>
     ELSE /\ Room(2)
          /\ resolutions' = Append(resolutions,
                              [session_id |-> session_id,
                               risk_tier |-> risk_tier,
                               policy_requires_approval |-> d.requires_approval,
                               allowed_actions |-> AllowedActions(d, risk_tier)])
          /\ sessions' = IncrementResolutionCount(sessions, session_id)
          /\ events' = Emit(Emit(events, trace_id,
                              WithSpan(Event("trace.carp.resolve.returned", session_id,
                                             "info", Len(resolutions) + 1, d.effect),
                                       NewSpan)),
                            trace_id, requested)
          /\ last' = [op |-> "resolve", out |-> "ok"]

\* Resolver.resolve once get_session has returned the session.
ResolveActive(session_id, trace_id, risk_tier, goal) ==
  LET d == Evaluate(DefaultRules, PolicyContext(session_id, risk_tier, goal))
      requested == Emit(events, trace_id,
                     WithSpan(Event("trace.carp.resolve.requested", session_id,
                                    "info", 0, ""), NewSpan))
  IN IF d.effect = "deny"
     THEN /\ Room(2)
          /\ events' = Emit(requested, trace_id,
                         WithSpan(Event("trace.carp.policy.denied", session_id, "warn",
                               0, d.rule_id), NewSpan))
          /\ last' = [op |-> "resolve", out |-> "PolicyDenied"]
          /\ UNCHANGED <<sessions, resolutions>>
     ELSE /\ Room(2)
          /\ resolutions' = Append(resolutions,
                              [session_id |-> session_id,
                               risk_tier |-> risk_tier,
                               policy_requires_approval |-> d.requires_approval,
                               allowed_actions |-> AllowedActions(d, risk_tier)])
          /\ sessions' = IncrementResolutionCount(sessions, session_id)
          /\ events' = Emit(requested, trace_id,
                         WithSpan(Event("trace.carp.resolve.returned", session_id, "info",
                               Len(resolutions) + 1, d.effect), NewSpan))
          /\ last' = [op |-> "resolve", out |-> "ok"]

\* resolve emitting its requested event before it validates the session.
ResolveRequestedFirst(session_id, trace_id, risk_tier, goal) ==
  /\ TraceKnown(trace_id)
  /\ IF GetSessionOutcome(session_id) = "ok"
     THEN ResolveActive(session_id, trace_id, risk_tier, goal)
     ELSE /\ Room(2)
          /\ sessions' = SessionsAfterGet(session_id)
          /\ events' = Emit(EventsAfterGet(session_id), trace_id,
                         WithSpan(Event("trace.carp.resolve.requested", session_id,
                               "info", 0, ""), NewSpan))
          /\ last' = [op |-> "resolve", out |-> GetRaises(session_id)]
          /\ UNCHANGED resolutions
  /\ UNCHANGED <<now, ended, executorVars, seen, subscribers, streams, policyVars, atlasVars>>

\* Resolver.resolve, the request naming the trace of a session.
Resolve(session_id, trace_id, risk_tier, goal) ==
  /\ TraceKnown(trace_id)
  /\ IF GetSessionOutcome(session_id) = "ok"
     THEN ResolveActive(session_id, trace_id, risk_tier, goal)
     ELSE /\ GetSessionOutcome(session_id) = "expire" => Room(1)
          /\ sessions' = SessionsAfterGet(session_id)
          /\ events' = EventsAfterGet(session_id)
          /\ last' = [op |-> "resolve", out |-> GetRaises(session_id)]
          /\ UNCHANGED resolutions
  /\ UNCHANGED <<now, ended, executorVars, seen, subscribers, streams, policyVars, atlasVars>>

\* -------------------------------------------------------- ActionExecutor

\* The positions in grants of the grants for (resolution_id, action_id).
Matching(resolution_id, action_id) ==
  {i \in 1..Len(grants) : /\ grants[i].resolution_id = resolution_id
                          /\ grants[i].action_id = action_id}

\* ActionExecutor._find_grant_for_action: the position of the first grant of
\* the table that matches, 0 when none does.
FindGrantForAction(resolution_id, action_id) ==
  IF Matching(resolution_id, action_id) = {} THEN 0
  ELSE CHOOSE i \in Matching(resolution_id, action_id) :
         \A j \in Matching(resolution_id, action_id) : i <= j

\* self._grants.get(grant_id): the position of the grant, 0 when absent.
GrantIndex(grant_id) ==
  IF \E i \in 1..Len(grants) : grants[i].grant_id = grant_id
  THEN CHOOSE i \in 1..Len(grants) : grants[i].grant_id = grant_id
  ELSE 0

\* del self._grants[grant_id]
RemoveAt(seq, i) == SubSeq(seq, 1, i - 1) \o SubSeq(seq, i + 1, Len(seq))

\* The json_schema the Resolver declares each allowed action with, by the
\* field names it requires and the ones it lists under properties.
ActionSchema(action_id) ==
  IF action_id = "cra.echo"
  THEN [required |-> {"message"}, properties |-> {"message"}]
  ELSE [required |-> {}, properties |-> {}]

\* The parameters of an execute request, by the names of their fields.
Parameters == {{}, {"message"}}

\* ActionExecutor.grant_action, given the schema the action is declared with.
GrantAction(resolution_id, action_id, requires_approval, ttl_seconds) ==
  /\ Room(1)
  /\ next_grant' = next_grant + 1
  /\ grants' = Append(grants,
       [grant_id |-> next_grant + 1, resolution_id |-> resolution_id,
        action_id |-> action_id, schema |-> ActionSchema(action_id),
        requires_approval |-> requires_approval,
        approved |-> FALSE, expires_at |-> now + ttl_seconds])
  /\ last' = [op |-> "grant_action", out |-> "ok"]
  /\ UNCHANGED <<now, sessionVars, events, executions, pending_approvals,
                 resolutions, seen, subscribers, streams, policyVars, atlasVars, rejected>>

\* ActionExecutor.approve_action
ApproveAction(grant_id, session_id, trace_id) ==
  /\ IF GrantIndex(grant_id) = 0
     THEN /\ last' = [op |-> "approve_action", out |-> "ActionNotFound"]
          /\ UNCHANGED <<grants, pending_approvals, events>>
     ELSE /\ Room(1)
          /\ grants' = [grants EXCEPT ![GrantIndex(grant_id)].approved = TRUE]
          /\ pending_approvals' = pending_approvals \ {grant_id}
          /\ events' = Emit(events, trace_id,
                         Event("trace.action.granted", session_id, "info",
                               grant_id, "approved"))
          /\ last' = [op |-> "approve_action", out |-> "ok"]
  /\ UNCHANGED <<now, sessionVars, next_grant, executions, resolutions, seen, subscribers, streams, policyVars, atlasVars,
                 rejected>>

\* reject_action recording the rejection but leaving the grant in the table.
RejectActionKeepingGrant(grant_id, session_id, trace_id) ==
  /\ IF GrantIndex(grant_id) = 0
     THEN /\ last' = [op |-> "reject_action", out |-> "ActionNotFound"]
          /\ UNCHANGED <<grants, pending_approvals, events, rejected>>
     ELSE /\ Room(1)
          /\ grants' = grants
          /\ rejected' = rejected \cup {grants[GrantIndex(grant_id)]}
          /\ pending_approvals' = pending_approvals \ {grant_id}
          /\ events' = Emit(events, trace_id,
                         Event("trace.action.failed", session_id, "info",
                               grant_id, "rejected"))
          /\ last' = [op |-> "reject_action", out |-> "ok"]
  /\ UNCHANGED <<now, sessionVars, next_grant, executions, resolutions, seen, subscribers, streams, policyVars, atlasVars>>

\* ActionExecutor.reject_action
RejectAction(grant_id, session_id, trace_id) ==
  /\ IF GrantIndex(grant_id) = 0
     THEN /\ last' = [op |-> "reject_action", out |-> "ActionNotFound"]
          /\ UNCHANGED <<grants, pending_approvals, events, rejected>>
     ELSE /\ Room(1)
          /\ grants' = RemoveAt(grants, GrantIndex(grant_id))
          /\ rejected' = rejected \cup {grants[GrantIndex(grant_id)]}
          /\ pending_approvals' = pending_approvals \ {grant_id}
          /\ events' = Emit(events, trace_id,
                         Event("trace.action.failed", session_id, "info",
                               grant_id, "rejected"))
          /\ last' = [op |-> "reject_action", out |-> "ok"]
  /\ UNCHANGED <<now, sessionVars, next_grant, executions, resolutions, seen, subscribers, streams, policyVars, atlasVars>>

\* The pre-execution checks without the approval check.
ExecuteCheckNoApproval(resolution_id, action_id) ==
  LET i == FindGrantForAction(resolution_id, action_id)
  IN IF i = 0 THEN "ActionNotFound"
     ELSE IF now > grants[i].expires_at THEN "ActionExpired"
     ELSE "ok"

\* The checks with the approval test made before the expiry test.
ExecuteCheckApprovalFirst(resolution_id, action_id) ==
  LET i == FindGrantForAction(resolution_id, action_id)
  IN IF i = 0 THEN "ActionNotFound"
     ELSE IF grants[i].requires_approval /\ ~grants[i].approved
          THEN "ActionNotApproved"
     ELSE IF now > grants[i].expires_at THEN "ActionExpired"
     ELSE "ok"

\* The pre-execution checks of ActionExecutor.execute: what it raises, "ok"
\* when it goes on to create the execution record.
ExecuteCheck(resolution_id, action_id) ==
  LET i == FindGrantForAction(resolution_id, action_id)
  IN IF i = 0 THEN "ActionNotFound"
     ELSE IF now > grants[i].expires_at THEN "ActionExpired"
     ELSE IF grants[i].requires_approval /\ ~grants[i].approved
          THEN "ActionNotApproved"
     ELSE "ok"

\* ActionExecutor.execute up to the await of the handler.
ExecuteStart(session_id, resolution_id, action_id, parameters, trace_id) ==
  /\ IF ExecuteCheck(resolution_id, action_id) # "ok"
     THEN /\ last' = [op |-> "execute",
                      out |-> ExecuteCheck(resolution_id, action_id)]
          /\ UNCHANGED <<executions, events>>
     ELSE /\ Room(1)
          /\ executions' = Append(executions,
               [grant_id |-> grants[FindGrantForAction(resolution_id, action_id)].grant_id,
                session_id |-> session_id, action_id |-> action_id,
                parameters |-> parameters,
                status |-> "running", trace_id |-> trace_id, error |-> "none",
                result |-> "none", result_hash |-> "none"])
          /\ events' = Emit(events, trace_id,
                         Event("trace.action.invoked", session_id, "info",
                               Len(executions) + 1, ""))
          /\ last' = [op |-> "execute", out |-> "dispatched"]
  /\ UNCHANGED <<now, sessionVars, grants, next_grant, pending_approvals,
                 resolutions, seen, subscribers, streams, policyVars, atlasVars, rejected>>

\* What get_execution returns for an id the table does not hold (None).
NoExecution == [status |-> "None"]

\* ActionExecutor.get_execution on the table execs.
GetExecution(execs, execution_id) ==
  IF execution_id \in 1..Len(execs) THEN execs[execution_id] ELSE NoExecution

\* execute counting a failed execution as an executed one.
ExecuteFinishCountsExecuted(execution_id, raised) ==
  /\ execution_id \in 1..Len(executions)
  /\ executions[execution_id].status = "running"
  /\ Room(1)
  /\ LET e == executions[execution_id]
         failed == raised # "none"
     IN /\ executions' = [executions EXCEPT
             ![execution_id].status = IF failed THEN "failed" ELSE "completed",
             ![execution_id].error = ErrorType(raised),
             ![execution_id].result =
               IF raised \in {"none", "unhashable"} THEN "result" ELSE "none",
             ![execution_id].result_hash = IF failed THEN "none" ELSE "hash"]
        /\ sessions' = IncrementActionCount(sessions, e.session_id, FALSE)
        /\ events' = Emit(events, e.trace_id,
             Event(IF failed THEN "trace.action.failed" ELSE "trace.action.completed",
                   e.session_id, "info", execution_id,
                   IF failed THEN ErrorType(raised) ELSE ""))
        /\ last' = [op |-> "execute", out |-> IF failed THEN "failed" ELSE "completed"]
  /\ UNCHANGED <<now, ended, grants, next_grant, pending_approvals, resolutions,
                 seen, subscribers, streams, policyVars, atlasVars, rejected>>

\* execute emitting trace.action.completed whatever the record's status.
ExecuteFinishEmitsCompleted(execution_id, raised) ==
  /\ execution_id \in 1..Len(executions)
  /\ executions[execution_id].status = "running"
  /\ Room(1)
  /\ LET e == executions[execution_id]
         failed == raised # "none"
     IN /\ executions' = [executions EXCEPT
             ![execution_id].status = IF failed THEN "failed" ELSE "completed",
             ![execution_id].error = ErrorType(raised),
             ![execution_id].result =
               IF raised \in {"none", "unhashable"} THEN "result" ELSE "none",
             ![execution_id].result_hash = IF failed THEN "none" ELSE "hash"]
        /\ sessions' = IncrementActionCount(sessions, e.session_id, failed)
        /\ events' = Emit(events, e.trace_id,
             Event("trace.action.completed", e.session_id, "info", execution_id,
                   IF failed THEN ErrorType(raised) ELSE ""))
        /\ last' = [op |-> "execute", out |-> IF failed THEN "failed" ELSE "completed"]
  /\ UNCHANGED <<now, ended, grants, next_grant, pending_approvals, resolutions,
                 seen, subscribers, streams, policyVars, atlasVars, rejected>>

\* ActionExecutor.execute from the handler's return (raised = "none"), the
\* exception it raises (raised = the exception's type name) or the return of
\* a result that cannot be hashed (raised = "unhashable": status and result
\* are assigned, _hash_json raises, the except arm sets failed and error) to
\* the response, which carries the record's status, result and error.
ExecuteFinish(execution_id, raised) ==
  /\ execution_id \in 1..Len(executions)
  /\ executions[execution_id].status = "running"
  /\ Room(1)
  /\ LET e == executions[execution_id]
         failed == raised # "none"
     IN /\ executions' = [executions EXCEPT
             ![execution_id].status = IF failed THEN "failed" ELSE "completed",
             ![execution_id].error = ErrorType(raised),
             ![execution_id].result =
               IF raised \in {"none", "unhashable"} THEN "result" ELSE "none",
             ![execution_id].result_hash = IF failed THEN "none" ELSE "hash"]
        /\ sessions' = IncrementActionCount(sessions, e.session_id, failed)
        /\ events' = Emit(events, e.trace_id,
             Event(IF failed THEN "trace.action.failed" ELSE "trace.action.completed",
                   e.session_id, "info", execution_id,
                   IF failed THEN ErrorType(raised) ELSE ""))
        /\ last' = [op |-> "execute", out |-> IF failed THEN "failed" ELSE "completed"]
  /\ UNCHANGED <<now, ended, grants, next_grant, pending_approvals, resolutions,
                 seen, subscribers, streams, policyVars, atlasVars, rejected>>

\* The clock advances.
Tick ==
  /\ Room(1)
  /\ now' = now + MinTtl
  /\ UNCHANGED <<sessions, events, ended, executorVars, resolutions, last, seen, subscribers, streams, policyVars, atlasVars>>

Init ==
  /\ now = 0
  /\ sessions = <<>>
  /\ events = [t \in TraceIds |-> <<>>]
  /\ grants = <<>>
  /\ next_grant = 0
  /\ executions = <<>>
  /\ pending_approvals = {}
  /\ resolutions = <<>>
  /\ last = [op |-> "none", out |-> "ok"]
  /\ seen = [t \in TraceIds |-> <<>>]
  /\ ended = {}
  /\ rejected = {}
  /\ subscribers = [t \in TraceIds |-> <<>>]
  /\ streams = [t \in TraceIds |-> <<>>]
  /\ engine_rules = DefaultRules
  /\ requests = [id \in RateLimitRuleIds |-> [k \in RateKeys |-> <<>>]]
  /\ passed = [id \in RateLimitRuleIds |-> [k \in RateKeys |-> <<>>]]
  /\ last_decision = NoDecision
  /\ atlas_cache = [p \in AtlasPaths |-> NoAtlas]
  /\ atlases = [id \in AtlasIds |-> NoAtlas]

\* ------------------------------------------------------------- Atlas

\* AtlasLoader.load: how the call ends for the directory dir.
LoadOutcome(dir) ==
  IF atlas_cache[dir.path] # NoAtlas THEN "cached"
  ELSE IF dir.manifest = "missing" THEN "AtlasNotFound"
  ELSE IF dir.manifest = "malformed" THEN "AtlasValidationError"
  ELSE "ok"

\* AtlasLoader.load: the LoadedAtlas built from dir; a declared file is
\* loaded if it exists and passed over if it does not.
LoadedAtlas(dir) ==
  [id |-> dir.id, root_path |-> dir.path, declared |-> dir.declared,
   loaded |-> {f \in dir.declared : f \in dir.present}]

\* AtlasLoader.load: what it returns when it does not raise.
LoadResult(dir) ==
  IF LoadOutcome(dir) = "cached" THEN atlas_cache[dir.path] ELSE LoadedAtlas(dir)

\* AtlasLoader.load: the cache after the call.
CacheAfterLoad(dir) ==
  IF LoadOutcome(dir) = "ok"
  THEN [atlas_cache EXCEPT ![dir.path] = LoadedAtlas(dir)]
  ELSE atlas_cache

\* AtlasLoader.load
Load(dir) ==
  /\ atlas_cache' = CacheAfterLoad(dir)
  /\ last' = [op |-> "load",
              out |-> IF LoadOutcome(dir) = "cached" THEN "ok" ELSE LoadOutcome(dir)]
  /\ UNCHANGED <<now, events, sessionVars, executorVars, resolutions, seen,
                 subscribers, streams, policyVars, atlases>>

\* AtlasRegistry.register
Register(dir) ==
  /\ atlas_cache' = CacheAfterLoad(dir)
  /\ IF LoadOutcome(dir) \in {"ok", "cached"}
     THEN /\ atlases' = [atlases EXCEPT ![LoadResult(dir).id] = LoadResult(dir)]
          /\ last' = [op |-> "register", out |-> "ok"]
     ELSE /\ atlases' = atlases
          /\ last' = [op |-> "register", out |-> LoadOutcome(dir)]
  /\ UNCHANGED <<now, events, sessionVars, executorVars, resolutions, seen,
                 subscribers, streams, policyVars>>

\* The session manager and the resolver: the requests a client may send,
\* the ids in them being the client's choice.
Next ==
  \/ Tick
  \/ \E ttl \in RequestTtls : CreateSession(ttl)
  \/ \E s \in SessionIds : EndSession(s)
  \/ \E s \in SessionIds : GetSession(s)
  \/ \E s \in SessionIds, t \in TraceIds, r \in RiskTiers, g \in Goals :
       Resolve(s, t, r, g)

Spec == Init /\ [][Next]_vars

\* The executor, with the session manager's create and end.
NextExecutor ==
  \/ Tick
  \/ CreateSession(MaxTtl)
  \/ \E s \in SessionIds : EndSession(s)
  \/ \E a \in ActionIds, ra \in BOOLEAN, ttl \in GrantTtls :
       GrantAction(0, a, ra, ttl)
  \/ \E g \in GrantIds, s \in ExecutorSessions : ApproveAction(g, s, s)
  \/ \E g \in GrantIds, s \in ExecutorSessions : RejectAction(g, s, s)
  \/ \E s \in ExecutorSessions, r \in ResolutionIds, a \in ActionIds,
        p \in Parameters :
       ExecuteStart(s, r, a, p, s)
  \/ \E e \in ExecutionIds, raised \in HandlerOutcomes : ExecuteFinish(e, raised)

SpecExecutor == Init /\ [][NextExecutor]_vars

\* The executor and the resolver side by side, for the session the executor's
\* requests name: resolves and executes in any order.
NextServices ==
  \/ NextExecutor
  \/ \E s \in ExecutorSessions, r \in RiskTiers, g \in Goals : Resolve(s, s, r, g)

SpecServices == Init /\ [][NextServices]_vars

\* The executor with time passing: the clock goes on as far as the run
\* reaches, while no handler is obliged ever to return or raise.
SpecExecutorFair == Init /\ [][NextExecutor]_vars /\ WF_vars(Tick)

\* The Tracer alone: emit and get_events with arguments of the caller's choice.
\* Only here are queues subscribed; the services' own emits find none.
EmitCall(event_type, trace_id, session_id, severity) ==
  /\ Room(1)
  /\ events' = Emit(events, trace_id, Event(event_type, session_id, severity, 0, ""))
  /\ subscribers' = Deliver(subscribers, trace_id,
                            Event(event_type, session_id, severity, 0, ""))
  /\ streams' = StreamsAfterEmit(streams, subscribers, trace_id)
  /\ last' = [op |-> "emit", out |-> "ok"]
  /\ UNCHANGED <<now, sessionVars, executorVars, resolutions, seen, policyVars, atlasVars>>

NextTracer ==
  \/ \E ty \in {"trace.session.started", "trace.action.invoked"},
        t \in TraceIds, sev \in {"info", "warn"} :
       EmitCall(ty, t, t, sev)
  \/ \E t \in TraceIds : GetEvents(t)

SpecTracer == Init /\ [][NextTracer]_vars

\* EventType values, cut at their dots.
TypeSegments(event_type) ==
  CASE event_type = "trace.session.started" -> <<"trace", "session", "started">>
    [] event_type = "trace.session.ended" -> <<"trace", "session", "ended">>
    [] event_type = "trace.carp.resolve.requested" -> <<"trace", "carp", "resolve", "requested">>
    [] event_type = "trace.carp.resolve.returned" -> <<"trace", "carp", "resolve", "returned">>
    [] event_type = "trace.carp.policy.denied" -> <<"trace", "carp", "policy", "denied">>
    [] event_type = "trace.action.granted" -> <<"trace", "action", "granted">>
    [] event_type = "trace.action.invoked" -> <<"trace", "action", "invoked">>
    [] event_type = "trace.action.completed" -> <<"trace", "action", "completed">>
    [] event_type = "trace.action.failed" -> <<"trace", "action", "failed">>
    [] OTHER -> <<event_type>>

\* str.startswith for a prefix that ends where a segment ends.
StartsWith(event_type, prefix) == IsPrefix(prefix, TypeSegments(event_type))

\* The arguments of a query: severity None stands for no severity filter and
\* the empty prefix for no event type filter; limit >= 1 and offset >= 0 as
\* the endpoint validates them.
QuerySeverities == {"None", "info", "warn"}
QueryPrefixes == {<<>>, <<"trace", "action">>, <<"carp">>}
QueryLimits == {1, 2}
QueryOffsets == {0, 1, 3}

\* filtered[offset : offset + limit]
Slice(list, offset, limit) == SubSeq(list, offset + 1, Min(Len(list), offset + limit))

\* get_events cutting the page out of the log and filtering the page.
GetEventsPageFirst(log, severity, prefix, limit, offset) ==
  LET paginated == Slice(log, offset, limit)
      by_severity == IF severity # "None"
                       THEN SelectSeq(paginated, LAMBDA e : e.severity = severity)
                       ELSE paginated
      filtered == IF prefix # <<>>
                    THEN SelectSeq(by_severity, LAMBDA e : StartsWith(e.event_type, prefix))
                    ELSE by_severity
  IN  [page |-> filtered, total |-> Len(filtered)]

\* Tracer.get_events: the filters, then the count, then the page.
GetEventsFiltered(log, severity, prefix, limit, offset) ==
  LET by_severity == IF severity # "None"
                       THEN SelectSeq(log, LAMBDA e : e.severity = severity)
                       ELSE log
      filtered == IF prefix # <<>>
                    THEN SelectSeq(by_severity, LAMBDA e : StartsWith(e.event_type, prefix))
                    ELSE by_severity
  IN  [page |-> Slice(filtered, offset, limit), total |-> Len(filtered)]

\* GET /v1/traces/{trace_id}/events: get_events and the has_more flag of the
\* response.
GetTraceEvents(trace_id, severity, prefix, limit, offset) ==
  LET r == GetEventsFiltered(events[trace_id], severity, prefix, limit, offset)
  IN  /\ last' = [op |-> "get_trace_events", out |-> "ok",
                  trace_id |-> trace_id,
                  query |-> [severity |-> severity, prefix |-> prefix,
                             limit |-> limit, offset |-> offset],
                  events |-> r.page, total_count |-> r.total,
                  has_more |-> (offset + Len(r.page)) < r.total]
      /\ UNCHANGED <<now, events, sessionVars, executorVars, resolutions, seen,
                     subscribers, streams, policyVars, atlasVars>>

\* The trace queried over HTTP while events of two types and two severities
\* are emitted to it.
QueryTrace == 1

NextQuery ==
  \/ EmitCall("trace.session.started", QueryTrace, QueryTrace, "info")
  \/ \E sev \in {"info", "warn"} :
       EmitCall("trace.action.invoked", QueryTrace, QueryTrace, sev)
  \/ \E sev \in QuerySeverities, p \in QueryPrefixes, l \in QueryLimits,
        o \in QueryOffsets :
       GetTraceEvents(QueryTrace, sev, p, l, o)

SpecQuery == Init /\ [][NextQuery]_vars

\* A TraceEvent with the fields get_all_events_for_session reads besides
\* those of Event: the trace it was emitted to and the time emit took from
\* the clock.
TimedEvent(event_type, trace_id, session_id, severity, time) ==
  [event_type |-> event_type, session_id |-> session_id, severity |-> severity,
   ref |-> 0, tag |-> "", span_id |-> 0, trace_id |-> trace_id, time |-> time]

\* emit with the event's time: the clock is read and the event appended
\* without a suspension in between, the lock being free whenever it is asked
\* for.
EmitTimed(event_type, trace_id, session_id, severity) ==
  /\ Room(1)
  /\ events' = Emit(events, trace_id,
                    TimedEvent(event_type, trace_id, session_id, severity, now))
  /\ subscribers' = Deliver(subscribers, trace_id,
                            TimedEvent(event_type, trace_id, session_id, severity, now))
  /\ streams' = StreamsAfterEmit(streams, subscribers, trace_id)
  /\ last' = [op |-> "emit", out |-> "ok"]
  /\ UNCHANGED <<now, sessionVars, executorVars, resolutions, seen, policyVars, atlasVars>>

\* all_events.extend(...) over the traces from trace_id on: the events of
\* the session, trace after trace.  The traces are taken by their ids; the
\* dict holds them in the order of their first emit.
RECURSIVE ExtendFrom(_, _, _)
ExtendFrom(evs, trace_id, session_id) ==
  IF trace_id \notin TraceIds THEN <<>>
  ELSE SelectSeq(evs[trace_id], LAMBDA e : e.session_id = session_id)
         \o ExtendFrom(evs, trace_id + 1, session_id)

\* An insertion that puts the event in front of the events of its own time.
RECURSIVE InsertBeforeEqual(_, _)
InsertBeforeEqual(list, event) ==
  IF list = <<>> THEN <<event>>
  ELSE IF Head(list).time < event.time
         THEN <<Head(list)>> \o InsertBeforeEqual(Tail(list), event)
         ELSE <<event>> \o list

\* sorted(), one step: the event goes behind every event whose time is not
\* later than its own (the sort is stable).
RECURSIVE InsertByTime(_, _)
InsertByTime(list, event) ==
  IF list = <<>> THEN <<event>>
  ELSE IF Head(list).time <= event.time
         THEN <<Head(list)>> \o InsertByTime(Tail(list), event)
         ELSE <<event>> \o list

\* sorted(all_events, key=lambda e: e.time)
RECURSIVE SortedByTime(_)
SortedByTime(list) ==
  IF list = <<>> THEN <<>>
  ELSE InsertByTime(SortedByTime(SubSeq(list, 1, Len(list) - 1)), list[Len(list)])

\* Tracer.get_all_events_for_session
GetAllEventsForSession(session_id) ==
  /\ last' = [op |-> "get_all_events_for_session", out |-> "ok",
              session_id |-> session_id,
              events |-> SortedByTime(ExtendFrom(events, 1, session_id))]
  /\ UNCHANGED <<now, events, sessionVars, executorVars, resolutions, seen,
                 subscribers, streams, policyVars, atlasVars>>

\* Two sessions emitting to two traces while the clock advances, and the
\* events of a session being asked for.
TimedTraces == {1, 2}

NextSessionEvents ==
  \/ Tick
  \/ \E t \in TimedTraces, s \in TimedTraces :
       EmitTimed("trace.action.invoked", t, s, "info")
  \/ EmitTimed("trace.action.invoked", 1, 1, "warn")
  \/ \E s \in TimedTraces : GetAllEventsForSession(s)

SpecSessionEvents == Init /\ [][NextSessionEvents]_vars

\* ActionExecutor.request_approval: the grant is looked up and the request
\* entered under the grant's id, whatever the state of the grant; the lock is
\* released and taken again in between without a suspension.
RequestApproval(grant_id, session_id, trace_id) ==
  /\ IF GrantIndex(grant_id) = 0
     THEN /\ last' = [op |-> "request_approval", out |-> "ActionNotFound"]
          /\ UNCHANGED <<pending_approvals, events>>
     ELSE /\ Room(1)
          /\ pending_approvals' = pending_approvals \cup {grant_id}
          /\ events' = Emit(events, trace_id,
                         Event("trace.action.granted", session_id, "info",
                               grant_id, "pending_approval"))
          /\ last' = [op |-> "request_approval", out |-> "ok"]
  /\ UNCHANGED <<now, sessionVars, grants, next_grant, executions, rejected,
                 resolutions, seen, subscribers, streams, policyVars, atlasVars>>

\* The executor's approval table: grants are issued, approval is requested
\* for them, and they are approved or rejected.
NextApprovals ==
  \/ \E ra \in BOOLEAN, ttl \in GrantTtls : GrantAction(0, "cra.echo", ra, ttl)
  \/ \E g \in GrantIds, s \in ExecutorSessions : RequestApproval(g, s, s)
  \/ \E g \in GrantIds, s \in ExecutorSessions : ApproveAction(g, s, s)
  \/ \E g \in GrantIds, s \in ExecutorSessions : RejectAction(g, s, s)

SpecApprovals == Init /\ [][NextApprovals]_vars

\* subscribe handing the trace's history to the new queue.
SubscribeReplayingHistory(trace_id) ==
  /\ Len(subscribers[trace_id]) < MaxSubscribers
  /\ subscribers' = [subscribers EXCEPT ![trace_id] =
                       Append(@, SubSeq(events[trace_id], 1,
                                        Min(Len(events[trace_id]), QueueMaxSize)))]
  /\ streams' = [streams EXCEPT ![trace_id] =
                   Append(@, [registered_at |-> Len(events[trace_id]),
                              yielded |-> <<>>, dropped |-> 0])]
  /\ last' = [op |-> "subscribe", out |-> "ok"]
  /\ UNCHANGED <<now, events, sessionVars, executorVars, resolutions, seen,
                 policyVars, atlasVars>>

\* Tracer.subscribe up to its first await: a new queue joins the trace's list.
Subscribe(trace_id) ==
  /\ Len(subscribers[trace_id]) < MaxSubscribers
  /\ subscribers' = [subscribers EXCEPT ![trace_id] = Append(@, <<>>)]
  /\ streams' = [streams EXCEPT ![trace_id] =
                   Append(@, [registered_at |-> Len(events[trace_id]),
                              yielded |-> <<>>, dropped |-> 0])]
  /\ last' = [op |-> "subscribe", out |-> "ok"]
  /\ UNCHANGED <<now, events, sessionVars, executorVars, resolutions, seen,
                 policyVars, atlasVars>>

\* Tracer.subscribe, "event = await queue.get(); yield event": the i-th
\* subscriber of the trace takes the oldest event of its queue.
QueueGet(trace_id, i) ==
  /\ i \in 1..Len(subscribers[trace_id])
  /\ subscribers[trace_id][i] # <<>>
  /\ subscribers' = [subscribers EXCEPT ![trace_id][i] = Tail(@)]
  /\ streams' = [streams EXCEPT ![trace_id][i].yielded =
                   Append(@, Head(subscribers[trace_id][i]))]
  /\ last' = [op |-> "yield", out |-> "ok"]
  /\ UNCHANGED <<now, events, sessionVars, executorVars, resolutions, seen,
                 policyVars, atlasVars>>

\* The finally clause taking the oldest queue of the trace off the list,
\* whichever stream is closing.
UnsubscribeOldest(trace_id, i) ==
  /\ i \in 1..Len(subscribers[trace_id])
  /\ subscribers' = [subscribers EXCEPT ![trace_id] = Tail(@)]
  /\ streams' = [streams EXCEPT ![trace_id] = Tail(@)]
  /\ last' = [op |-> "unsubscribe", out |-> "ok"]
  /\ UNCHANGED <<now, events, sessionVars, executorVars, resolutions, seen,
                 policyVars, atlasVars>>

\* Tracer.subscribe, the finally clause: the i-th subscriber of the trace
\* closes its stream and its queue leaves the list.
Unsubscribe(trace_id, i) ==
  /\ i \in 1..Len(subscribers[trace_id])
  /\ subscribers' = [subscribers EXCEPT ![trace_id] =
                       SubSeq(@, 1, i - 1) \o SubSeq(@, i + 1, Len(@))]
  /\ streams' = [streams EXCEPT ![trace_id] =
                   SubSeq(@, 1, i - 1) \o SubSeq(@, i + 1, Len(@))]
  /\ last' = [op |-> "unsubscribe", out |-> "ok"]
  /\ UNCHANGED <<now, events, sessionVars, executorVars, resolutions, seen,
                 policyVars, atlasVars>>

\* The trace the subscribers stream, and a trace nobody streams.
SubscriberTraces == {1}
OtherTrace == 2

\* The Tracer with subscribers: emits, and streams opened, read and closed.
NextSubscribers ==
  \/ \E t \in SubscriberTraces, sev \in {"info", "warn"} :
       EmitCall("trace.action.invoked", t, t, sev)
  \/ EmitCall("trace.action.invoked", OtherTrace, OtherTrace, "info")
  \/ \E t \in SubscriberTraces : Subscribe(t)
  \/ \E t \in SubscriberTraces, i \in 1..MaxSubscribers : QueueGet(t, i)
  \/ \E t \in SubscriberTraces, i \in 1..MaxSubscribers : Unsubscribe(t, i)

SpecSubscribers == Init /\ [][NextSubscribers]_vars

\* The Atlas loader and registry: loads and registrations of directories in
\* whatever state the caller finds them.
NextAtlas ==
  \/ \E dir \in AtlasDirs : Load(dir)
  \/ \E dir \in AtlasDirs : Register(dir)

SpecAtlas == Init /\ [][NextAtlas]_vars

\* The PolicyEngine alone, holding any rule list: evaluate with contexts of
\* the caller's choice, stamped with the time of the call.
InitPolicy ==
  /\ now = 0
  /\ sessions = <<>>
  /\ events = [t \in TraceIds |-> <<>>]
  /\ grants = <<>>
  /\ next_grant = 0
  /\ executions = <<>>
  /\ pending_approvals = {}
  /\ resolutions = <<>>
  /\ last = [op |-> "none", out |-> "ok"]
  /\ seen = [t \in TraceIds |-> <<>>]
  /\ ended = {}
  /\ rejected = {}
  /\ subscribers = [t \in TraceIds |-> <<>>]
  /\ streams = [t \in TraceIds |-> <<>>]
  /\ engine_rules \in RuleLists
  /\ requests = [id \in RateLimitRuleIds |-> [k \in RateKeys |-> <<>>]]
  /\ passed = [id \in RateLimitRuleIds |-> [k \in RateKeys |-> <<>>]]
  /\ last_decision = NoDecision
  /\ atlas_cache = [p \in AtlasPaths |-> NoAtlas]
  /\ atlases = [id \in AtlasIds |-> NoAtlas]

NextPolicy ==
  \/ Tick
  \/ \E c \in Contexts : EvaluateCall(c)

SpecPolicy == InitPolicy /\ [][NextPolicy]_vars

\* The PolicyEngine holding a rule of the caller's own that raises.
InitPolicyRaising ==
  /\ now = 0
  /\ sessions = <<>>
  /\ events = [t \in TraceIds |-> <<>>]
  /\ grants = <<>>
  /\ next_grant = 0
  /\ executions = <<>>
  /\ pending_approvals = {}
  /\ resolutions = <<>>
  /\ last = [op |-> "none", out |-> "ok"]
  /\ seen = [t \in TraceIds |-> <<>>]
  /\ ended = {}
  /\ rejected = {}
  /\ subscribers = [t \in TraceIds |-> <<>>]
  /\ streams = [t \in TraceIds |-> <<>>]
  /\ engine_rules \in RuleListsRaising
  /\ requests = [id \in RateLimitRuleIds |-> [k \in RateKeys |-> <<>>]]
  /\ passed = [id \in RateLimitRuleIds |-> [k \in RateKeys |-> <<>>]]
  /\ last_decision = NoDecision
  /\ atlas_cache = [p \in AtlasPaths |-> NoAtlas]
  /\ atlases = [id \in AtlasIds |-> NoAtlas]

SpecPolicyRaising == InitPolicyRaising /\ [][NextPolicy]_vars

\* ================================================================ claims

\* C1 (SpecTracer): for every trace, the unfiltered list an earlier get_events
\* returned is a prefix of the list any later get_events returns, and the
\* trace's log only grows at its end: no event already in it is removed,
\* altered or reordered.
C1_GetEventsPrefix ==
  [][\A t \in TraceIds : /\ IsPrefix(events[t], events'[t])
                         /\ IsPrefix(seen[t], seen'[t])
                         /\ IsPrefix(seen'[t], events'[t])]_vars

\* get_events has returned a non-empty list for a trace and events have been
\* emitted to the trace since.
C1_Witness ==
  \E t \in TraceIds : /\ seen[t] # <<>>
                      /\ Len(events[t]) > Len(seen[t])

\* C2 (Spec): a session's state changes only from active, to expired by a
\* read at or after expires_at or to ended by end; a session that is ended or
\* expired keeps its state and its ended_at.
C2_StateOnlyLeavesActive ==
  [][\A s \in 1..Len(sessions) :
       /\ sessions'[s].state # sessions[s].state =>
            /\ sessions[s].state = "active"
            /\ sessions'[s].state \in {"expired", "ended"}
            /\ sessions'[s].state = "expired" => now >= sessions[s].expires_at
       /\ sessions[s].state # "active" =>
            sessions'[s].ended_at = sessions[s].ended_at]_vars

\* C3 (Spec): once end_session has returned for a session, its state is ended
\* or expired in every later state, and every get_session for it raises
\* SessionNotFound or SessionExpired.
C3_GetFailsAfterEnd ==
  [][/\ \A s \in ended' : sessions'[s].state \in {"ended", "expired"}
     /\ \A s \in ended :
          GetSession(s) => last'.out \in {"SessionNotFound", "SessionExpired"}]_vars

\* The one session there is has been ended and a get_session for it has
\* raised SessionExpired.
C3_Witness ==
  /\ Len(sessions) = 1
  /\ ended = {1}
  /\ last = [op |-> "get_session", out |-> "SessionExpired"]

\* C4 (SpecExecutor): after end_session has returned for a session, the only
\* events appended to the session's trace are trace.session.ended events: no
\* execute, approve or reject naming the session, in flight or later, appends
\* a trace.action.* event.
C4_NoEventsAfterEnd ==
  [][\A s \in ended :
       \A i \in (Len(events[sessions[s].trace_id]) + 1)
                  ..Len(events'[sessions[s].trace_id]) :
         events'[sessions[s].trace_id][i].event_type = "trace.session.ended"]_vars

\* C5 (SpecExecutor): execute creates an execution record and emits
\* trace.action.invoked only when, at the call, the table holds the grant the
\* record names, for the action executed, with now <= expires_at and approved
\* if it requires approval; an invoked event is only appended together with
\* such a record.
C5_DispatchNeedsValidGrant ==
  [][/\ Len(executions') > Len(executions) =>
          /\ Len(executions') = Len(executions) + 1
          /\ \E i \in 1..Len(grants) :
               /\ grants[i].grant_id = executions'[Len(executions')].grant_id
               /\ grants[i].action_id = executions'[Len(executions')].action_id
               /\ now <= grants[i].expires_at
               /\ grants[i].requires_approval => grants[i].approved
     /\ \A t \in TraceIds :
          \A i \in (Len(events[t]) + 1)..Len(events'[t]) :
            events'[t][i].event_type = "trace.action.invoked" =>
              /\ Len(executions') = Len(executions) + 1
              /\ events'[t][i].ref = Len(executions')
              /\ executions'[Len(executions')].trace_id = t]_vars

\* An execution was dispatched on a grant that requires approval and has it.
C5_Witness ==
  \E e \in 1..Len(executions) : \E i \in 1..Len(grants) :
    /\ grants[i].grant_id = executions[e].grant_id
    /\ grants[i].requires_approval
    /\ grants[i].approved

\* C6 (Spec): a resolve for an active session whose policy evaluation is deny
\* raises PolicyDenied; it appends to the request's trace the requested event
\* and then exactly one trace.carp.policy.denied event of severity warn that
\* carries the denying rule's id, and no trace.carp.resolve.returned event; it
\* returns no Resolution and leaves the session's counters as they were.
C6_DenyRaisesPolicyDenied ==
  [][\A s \in SessionIds, t \in TraceIds, r \in RiskTiers, g \in Goals :
       ( /\ Resolve(s, t, r, g)
         /\ GetSessionOutcome(s) = "ok"
         /\ Evaluate(DefaultRules, PolicyContext(s, r, g)).effect = "deny" )
       => /\ last'.out = "PolicyDenied"
          /\ resolutions' = resolutions
          /\ sessions' = sessions
          /\ \A u \in TraceIds \ {t} : events'[u] = events[u]
          /\ Len(events'[t]) = Len(events[t]) + 2
          /\ SubSeq(events'[t], 1, Len(events[t])) = events[t]
          /\ events'[t][Len(events[t]) + 1].event_type
               = "trace.carp.resolve.requested"
          /\ [events'[t][Len(events[t]) + 2] EXCEPT !.span_id = 0]
               = Event("trace.carp.policy.denied", s, "warn", 0,
                       "deny-dangerous-commands")]_vars

\* A resolve has raised PolicyDenied and its policy.denied event is in a log.
C6_Witness ==
  /\ last = [op |-> "resolve", out |-> "PolicyDenied"]
  /\ \E t \in TraceIds : \E i \in 1..Len(events[t]) :
       events[t][i].event_type = "trace.carp.policy.denied"

\* C7 (Spec): for every Resolution resolve has returned and every action in
\* its allowed_actions, the executor's table holds a grant keyed by the
\* resolution's id and the action's id that carries the action's
\* requires_approval flag.
C7_ResolveMaterializesGrants ==
  \A rid \in 1..Len(resolutions) : \A a \in ActionIds :
    \E i \in 1..Len(grants) :
      /\ grants[i].resolution_id = rid
      /\ grants[i].action_id = a
      /\ grants[i].requires_approval = resolutions[rid].allowed_actions[a]

\* C8 as claimed (SpecExecutor): once reject_action has removed a grant, every
\* execute for the grant's (resolution_id, action_id) raises ActionNotFound,
\* every approve_action of it raises ActionNotFound, and no execution record
\* is created for it.
C8_RejectedPairNeverExecutes ==
  [][\A g \in rejected : \A s \in ExecutorSessions :
       /\ \A p \in Parameters :
            ExecuteStart(s, g.resolution_id, g.action_id, p, s) =>
              last'.out = "ActionNotFound"
       /\ ApproveAction(g.grant_id, s, s) => last'.out = "ActionNotFound"
       /\ \A e \in (Len(executions) + 1)..Len(executions') :
            executions'[e].grant_id # g.grant_id]_vars

\* C8 as amended (SpecExecutor): once reject_action has removed a grant, the
\* grant is in the table in no later state, every approve_action of it raises
\* ActionNotFound, no execution record is created and no invoked event is
\* appended for it, and an execute for its (resolution_id, action_id) raises
\* ActionNotFound unless the table holds another grant for the same pair.
C8_RejectedGrantNeverDispatched ==
  [][/\ \A g \in rejected' :
          \A i \in 1..Len(grants') : grants'[i].grant_id # g.grant_id
     /\ \A g \in rejected : \A s \in ExecutorSessions :
          /\ ApproveAction(g.grant_id, s, s) =>
               /\ last'.out = "ActionNotFound"
               /\ events' = events
          /\ \A e \in (Len(executions) + 1)..Len(executions') :
               executions'[e].grant_id # g.grant_id
          /\ \A p \in Parameters :
               ( /\ ExecuteStart(s, g.resolution_id, g.action_id, p, s)
                 /\ Matching(g.resolution_id, g.action_id) = {} )
               => /\ last'.out = "ActionNotFound"
                  /\ events' = events
                  /\ executions' = executions]_vars

\* A grant has been rejected and an execute has then raised ActionNotFound.
C8_Witness ==
  /\ rejected # {}
  /\ grants = <<>>
  /\ last = [op |-> "execute", out |-> "ActionNotFound"]

\* C9 (Spec): a get_session for a session that is active at or after its
\* expires_at appends one trace.session.ended event of severity warn and
\* reason expired to the session's trace, sets the state to expired and raises
\* SessionExpired; a get_session for an expired session raises SessionExpired
\* and changes neither the session nor any log; so the logs hold at most one
\* expiry event of a session, and exactly one while its state is expired.
C9_ExpiresOnce ==
  [][\A s \in 1..Len(sessions) :
       LET tr == sessions[s].trace_id
           expiry == Event("trace.session.ended", s, "warn", 0, "expired")
           n == Cardinality({i \in 1..Len(events'[tr]) : events'[tr][i] = expiry})
       IN /\ ( /\ GetSession(s)
               /\ sessions[s].state = "active"
               /\ now >= sessions[s].expires_at )
             => /\ sessions'[s].state = "expired"
                /\ last'.out = "SessionExpired"
                /\ events' = [events EXCEPT ![tr] = Append(@, expiry)]
          /\ (GetSession(s) /\ sessions[s].state = "expired")
             => /\ last'.out = "SessionExpired"
                /\ sessions' = sessions
                /\ events' = events
          /\ n <= 1
          /\ sessions'[s].state = "expired" => n = 1]_vars

\* A session has expired on a read: its expiry event is the last of its
\* trace and the last get_session raised SessionExpired.
C9_Witness ==
  /\ Len(sessions) = 1
  /\ sessions[1].state = "expired"
  /\ last = [op |-> "get_session", out |-> "SessionExpired"]
  /\ events[1][Len(events[1])]
       = Event("trace.session.ended", 1, "warn", 0, "expired")

\* C10 (Spec): end_session for a session that is already ended changes
\* neither the session (state, ended_at, summary) nor any log; end_session for
\* an expired session raises SessionExpired and changes nothing either.
C10_EndIdempotent ==
  [][\A s \in 1..Len(sessions) :
       (EndSession(s) /\ sessions[s].state # "active")
       => /\ sessions' = sessions
          /\ events' = events
          /\ sessions[s].state = "expired" => last'.out = "SessionExpired"]_vars

\* C11 (Spec): a resolve for a session id that is unknown, or whose session
\* is ended or expired, raises the session error (SessionNotFound,
\* SessionExpired) and appends no event to any trace; a resolve that finds an
\* active session at or after its expires_at raises SessionExpired and appends
\* only the one trace.session.ended event of the expiry, to the session's
\* trace; neither returns a Resolution.
C11_InvalidSessionNoEvents ==
  [][\A s \in SessionIds, t \in TraceIds, r \in RiskTiers, g \in Goals :
       Resolve(s, t, r, g) =>
         /\ ~Known(s) =>
              /\ last'.out = "SessionNotFound"
              /\ events' = events
              /\ resolutions' = resolutions
         /\ (Known(s) /\ sessions[s].state # "active") =>
              /\ last'.out = "SessionExpired"
              /\ events' = events
              /\ resolutions' = resolutions
         /\ ( /\ Known(s)
              /\ sessions[s].state = "active"
              /\ now >= sessions[s].expires_at ) =>
              /\ last'.out = "SessionExpired"
              /\ events' = [events EXCEPT ![sessions[s].trace_id] =
                              Append(@, Event("trace.session.ended", s, "warn",
                                              0, "expired"))]
              /\ resolutions' = resolutions]_vars

\* A resolve for the ended session 1 has raised SessionExpired.
C11_Witness ==
  /\ Len(sessions) = 1
  /\ sessions[1].state = "ended"
  /\ last = [op |-> "resolve", out |-> "SessionExpired"]

\* C12 (SpecExecutor): when the handler raises an exception, execute returns
\* a response of status failed: the execution record keeps its place in the
\* table and get_execution returns it with status failed, error.type the
\* exception's type name and result and result_hash unset; the session's
\* actions_failed counter grows by one and actions_executed stays; the event
\* appended is trace.action.failed with that error type.
C12_HandlerErrorIsFailedResponse ==
  [][\A e \in ExecutionIds, x \in HandlerRaises \ {"none"} :
       ExecuteFinish(e, x) =>
         /\ last' = [op |-> "execute", out |-> "failed"]
         /\ Len(executions') = Len(executions)
         /\ GetExecution(executions', e) # NoExecution
         /\ GetExecution(executions', e).status = "failed"
         /\ GetExecution(executions', e).error = x
         /\ GetExecution(executions', e).result = "none"
         /\ GetExecution(executions', e).result_hash = "none"
         /\ GetExecution(executions', e).grant_id = executions[e].grant_id
         /\ \A s \in 1..Len(sessions) :
              /\ sessions'[s].stats.actions_executed
                   = sessions[s].stats.actions_executed
              /\ sessions'[s].stats.actions_failed
                   = sessions[s].stats.actions_failed
                     + (IF s = executions[e].session_id THEN 1 ELSE 0)
         /\ events' = Emit(events, executions[e].trace_id,
                           Event("trace.action.failed", executions[e].session_id,
                                 "info", e, x))]_vars

\* An execution of session 1 has failed on a ValueError of its handler and
\* the session has counted it.
C12_Witness ==
  /\ Len(sessions) >= 1
  /\ sessions[1].stats.actions_failed = 1
  /\ \E e \in 1..Len(executions) :
       /\ executions[e].status = "failed"
       /\ executions[e].error = "ValueError"
       /\ executions[e].session_id = 1

\* C13: PolicyEngine.evaluate returns the most restrictive effect among the
\* partial decisions of the rules it evaluated (deny > require_approval >
\* allow_with_constraints > allow); it returns allow exactly when no rule
\* produced a partial decision; and the effect is the same for every order
\* the rules could have been added in.
C13_MostRestrictiveEffect ==
  \A c \in Contexts :
    LET ctx == ContextAt(c, now)
        rank == [e \in {"allow", "allow_with_constraints", "require_approval",
                        "deny"} |->
                   CASE e = "allow" -> 0
                     [] e = "allow_with_constraints" -> 1
                     [] e = "require_approval" -> 2
                     [] e = "deny" -> 3]
        partial == {RuleEvaluate(engine_rules[i], ctx).effect :
                      i \in EvaluatedRules(engine_rules, ctx)} \ {"none"}
        effect == Evaluate(engine_rules, ctx).effect
    IN /\ (effect = "allow") <=> (partial = {})
       /\ partial # {} =>
            /\ effect \in partial
            /\ \A e \in partial : rank[e] <= rank[effect]
       /\ \A p \in Permutations(1..Len(engine_rules)) :
            Evaluate([i \in 1..Len(engine_rules) |-> engine_rules[p[i]]],
                     ctx).effect = effect

\* An evaluation returned require_approval from an engine of three rules
\* whose approval rule comes first and whose redaction rule, evaluated after
\* it, produces allow_with_constraints for a context of this moment.
C13_Witness ==
  /\ last = [op |-> "evaluate", out |-> "require_approval"]
  /\ Len(engine_rules) = 3
  /\ engine_rules[1].kind = "risk_approval"
  /\ engine_rules[2].kind = "redaction"
  /\ \E c \in Contexts :
       /\ RuleEvaluate(engine_rules[2], ContextAt(c, now)).effect
            = "allow_with_constraints"
       /\ Evaluate(engine_rules, ContextAt(c, now)).effect = "require_approval"

\* C14: for a RateLimitRule with limit max_requests and window W, evaluated
\* at non-decreasing timestamps: for every key and every time t, at most
\* max_requests evaluations with a timestamp in (t - W, t] passed the rule;
\* and an evaluation that finds max_requests passes of its key inside its
\* window is denied and is not recorded as a pass.
C14_RateLimitWindow ==
  /\ \A r \in RateLimitRules, k \in RateKeys, n \in 0..MaxSteps :
       Len(SelectSeq(passed[r.rule_id][k],
                     LAMBDA x : /\ x > n * MinTtl - r.window_seconds
                                /\ x <= n * MinTtl)) <= r.max_requests
  /\ \A c \in Contexts :
       \A r \in EvaluatedRateLimits(engine_rules, ContextAt(c, now)) :
         Len(SelectSeq(passed[r.rule_id][RateKey(ContextAt(c, now))],
                       LAMBDA x : x > now - r.window_seconds))
           >= r.max_requests
         => /\ Evaluate(engine_rules, ContextAt(c, now)).effect = "deny"
            /\ RateTableAfter(passed, engine_rules, ContextAt(c, now),
                              FALSE)[r.rule_id]
                 = passed[r.rule_id]

\* The rule of two requests per 120 seconds let one request of a key pass at
\* time 0 and one at time 60, and denied the third, made at time 60.
C14_Witness ==
  /\ last = [op |-> "evaluate", out |-> "deny"]
  /\ last_decision.rule_id = "rate-2-per-120"
  /\ now = 60
  /\ \E k \in RateKeys : passed["rate-2-per-120"][k] = <<0, 60>>

\* C15 (Spec): for every Resolution resolve has returned and every action in
\* its allowed_actions, the action's requires_approval is the OR of the
\* policy decision's requires_approval, of the task's risk_tier being high
\* and of the action's intrinsic requirement; so with risk_tier high every
\* allowed action requires approval.
C15_RequiresApprovalIsOr ==
  \A rid \in 1..Len(resolutions) : \A a \in ActionIds :
    resolutions[rid].allowed_actions[a]
      = (\/ resolutions[rid].policy_requires_approval
         \/ resolutions[rid].risk_tier = "high"
         \/ IntrinsicApproval[a])

\* C16 (SpecSubscribers): emit never blocks on or fails because of a
\* subscriber.  Whatever the queues hold, an emit can be made; it appends its
\* event to the trace's log and returns normally; every queue of the trace
\* with room receives the event at its end, and a full queue is left as it
\* is, the event dropped for that subscriber only.
C16_EmitNeverBlocksOnSubscriber ==
  /\ [](\A t \in TraceIds, sev \in {"info", "warn"} :
         Room(1) => ENABLED EmitCall("trace.action.invoked", t, t, sev))
  /\ [][\A t \in TraceIds :
          Len(events'[t]) > Len(events[t]) =>
            LET e == events'[t][Len(events'[t])]
            IN /\ events'[t] = Append(events[t], e)
               /\ last' = [op |-> "emit", out |-> "ok"]
               /\ \A u \in TraceIds \ {t} : subscribers'[u] = subscribers[u]
               /\ Len(subscribers'[t]) = Len(subscribers[t])
               /\ \A i \in 1..Len(subscribers[t]) :
                    subscribers'[t][i] =
                      IF Len(subscribers[t][i]) < QueueMaxSize
                      THEN Append(subscribers[t][i], e)
                      ELSE subscribers[t][i]]_vars

\* An emit has returned on a trace with two subscribers: the first one's
\* queue was full and holds the two older events only, the second one had
\* taken an event from its queue and received the new event.
C16_Witness ==
  /\ last = [op |-> "emit", out |-> "ok"]
  /\ \E t \in TraceIds :
       /\ Len(events[t]) = 3
       /\ Len(subscribers[t]) = 2
       /\ subscribers[t][1] = SubSeq(events[t], 1, 2)
       /\ subscribers[t][2] = SubSeq(events[t], 2, 3)
       /\ events[t][3] # events[t][2]

\* C17 (SpecTracer): in every interleaving of emit calls, each emit appends
\* exactly one event to the log of its trace and changes no other log, so
\* that no event is lost and none is duplicated; when the emit returns, its
\* event is the last of the log, and the get_events made then or later
\* returns a list that holds it: no step takes an event out of a log, and
\* each get_events returns the events of the log, as far as its page reaches.
C17_EmitAppendsExactlyOne ==
  [][/\ \A t \in TraceIds : IsPrefix(events[t], events'[t])
     /\ last'.op = "emit" =>
          \E t \in TraceIds :
            /\ Len(events'[t]) = Len(events[t]) + 1
            /\ \A u \in TraceIds \ {t} : events'[u] = events[u]
            /\ LET page == Page(events'[t], DefaultLimit, 0)
               IN Len(events'[t]) <= DefaultLimit
                    => page[Len(events'[t])] = events'[t][Len(events'[t])]
     /\ last'.op = "get_events" =>
          /\ events' = events
          /\ \A t \in TraceIds :
               seen'[t] # seen[t] =>
                 \A i \in 1..Len(events[t]) :
                   i <= DefaultLimit => seen'[t][i] = events[t][i]]_vars

\* Emits on both traces have interleaved; the last one returned after a
\* get_events had been answered with the older event of its trace, and the
\* log of that trace now holds two events.
C17_Witness ==
  /\ last = [op |-> "emit", out |-> "ok"]
  /\ \A u \in TraceIds : events[u] # <<>>
  /\ \E t \in TraceIds :
       /\ Len(events[t]) = 2
       /\ seen[t] = <<events[t][1]>>
       /\ subscribers[t] = <<>>

\* C18 (SpecExecutor): execute with parameters that violate the grant's
\* schema (a required field missing, or a field the schema does not list)
\* never dispatches the handler: no execution of such parameters is running
\* or completed, and one that is on record is failed with the error type
\* "validation".
C18_InvalidParametersNeverDispatched ==
  \A e \in 1..Len(executions) :
    LET schema == ActionSchema(executions[e].action_id)
        violates == \/ ~(schema.required \subseteq executions[e].parameters)
                    \/ ~(executions[e].parameters \subseteq schema.properties)
    IN violates => /\ executions[e].status = "failed"
                   /\ executions[e].error = "validation"

\* C19 (SpecExecutor): execute applies its checks in the order grant exists,
\* expiry, approval, and reports the first that fails: ActionNotFound when
\* no grant matches, else ActionExpired when the grant found has expired
\* (also when it requires an approval it has not got), else
\* ActionNotApproved when it lacks a required approval; and an execute that
\* raises one of these creates no execution record, appends no event and
\* changes no session.
C19_ChecksInOrder ==
  [][\A s \in ExecutorSessions, r \in ResolutionIds, a \in ActionIds,
       p \in Parameters :
       (last'.op = "execute" /\ ExecuteStart(s, r, a, p, s)) =>
         LET i == FindGrantForAction(r, a)
             rejects == {"ActionNotFound", "ActionExpired", "ActionNotApproved"}
         IN /\ i = 0 => last'.out = "ActionNotFound"
            /\ (i # 0 /\ now > grants[i].expires_at) =>
                 last'.out = "ActionExpired"
            /\ ( /\ i # 0
                 /\ now <= grants[i].expires_at
                 /\ grants[i].requires_approval
                 /\ ~grants[i].approved ) => last'.out = "ActionNotApproved"
            /\ last'.out \in rejects =>
                 /\ executions' = executions
                 /\ sessions' = sessions
                 /\ events' = events
            /\ last'.out \notin rejects =>
                 Len(executions') = Len(executions) + 1]_vars

\* An execute has raised ActionExpired for the only grant of the table, which
\* has expired and requires an approval it never got; there is no execution
\* record, and the session of the request has its counters at zero.
C19_Witness ==
  /\ last = [op |-> "execute", out |-> "ActionExpired"]
  /\ Len(grants) = 1
  /\ now > grants[1].expires_at
  /\ grants[1].requires_approval
  /\ ~grants[1].approved
  /\ executions = <<>>
  /\ Len(sessions) = 1
  /\ sessions[1].stats.actions_executed = 0
  /\ sessions[1].stats.actions_failed = 0

\* C20 (SpecExecutor): each grant creation, each approve and each reject
\* appends exactly one trace.action.granted event to one trace, the approve's
\* with the flag approved and the reject's with the flag rejected; so the
\* trace of 'grant, approve, execute' reads granted, granted, invoked,
\* completed.
C20_GrantedOnGrantApproveReject ==
  [][LET oneGranted(flags) ==
           \E t \in TraceIds :
             /\ Len(events'[t]) = Len(events[t]) + 1
             /\ IsPrefix(events[t], events'[t])
             /\ events'[t][Len(events'[t])].event_type = "trace.action.granted"
             /\ flags # {} => events'[t][Len(events'[t])].tag \in flags
             /\ \A u \in TraceIds \ {t} : events'[u] = events[u]
     IN /\ next_grant' # next_grant =>
             oneGranted({})
        /\ \A g \in GrantIds, s \in ExecutorSessions :
             /\ (ApproveAction(g, s, s) /\ last'.out = "ok") =>
                  oneGranted({"approved"})
             /\ (RejectAction(g, s, s) /\ last'.out = "ok") =>
                  oneGranted({"rejected"})]_vars

\* C21 (SpecExecutor): an execute that is refused because its grant has
\* expired appends a trace.action.failed event, carrying the error, to the
\* trace of the request.
C21_ExpiredExecuteAppendsFailed ==
  [][\A s \in ExecutorSessions, r \in ResolutionIds, a \in ActionIds,
       p \in Parameters :
       ( /\ last'.op = "execute"
         /\ last'.out = "ActionExpired"
         /\ ExecuteStart(s, r, a, p, s) ) =>
         /\ Len(events'[s]) = Len(events[s]) + 1
         /\ events'[s][Len(events'[s])].event_type = "trace.action.failed"
         /\ events'[s][Len(events'[s])].tag = "ActionExpired"]_vars

\* C22 (SpecExecutorFair): every execution that reaches running eventually
\* leaves it, also when its handler never returns: with time passing, the
\* execution's timeout fails it.
C22_RunningEventuallyLeaves ==
  \A e \in ExecutionIds :
    (e \in 1..Len(executions) /\ executions[e].status = "running")
      ~> (e \in 1..Len(executions) /\ executions[e].status # "running")

\* C23 (SpecTracer): get_events on a trace id to which nothing was ever
\* emitted fails with NotFound, and leaves the trace id unknown; on a trace
\* with events it returns normally.
C23_UnknownTraceNotFound ==
  [][\A t \in TraceIds :
       (last'.op = "get_events" /\ GetEvents(t)) =>
         /\ events' = events
         /\ events[t] = <<>> => last'.out = "NotFound"
         /\ events[t] # <<>> => last'.out = "ok"]_vars

\* C24 (Spec): create with ttl_seconds outside [60, 86400] fails with a
\* validation error, registers no session and appends no event; with 60 or
\* 86400 it succeeds; and every created session has expires_at = created_at
\* + ttl_seconds > created_at and exactly one trace.session.started event,
\* the first event of its trace.
C24_TtlValidatedAtCreate ==
  [][/\ \A ttl \in RequestTtls :
          (last'.op = "create_session" /\ CreateSession(ttl)) =>
            IF ttl < 60 \/ ttl > 86400
            THEN /\ last'.out = "ValidationError"
                 /\ sessions' = sessions
                 /\ events' = events
            ELSE /\ last'.out = "ok"
                 /\ Len(sessions') = Len(sessions) + 1
                 /\ SubSeq(sessions', 1, Len(sessions)) = sessions
                 /\ sessions'[Len(sessions')].expires_at
                      = sessions'[Len(sessions')].created_at + ttl
     /\ \A sid \in 1..Len(sessions') :
          /\ sessions'[sid].expires_at > sessions'[sid].created_at
          /\ events'[sessions'[sid].trace_id][1].event_type
               = "trace.session.started"
          /\ Len(SelectSeq(events'[sessions'[sid].trace_id],
                           LAMBDA e : e.event_type = "trace.session.started"))
               = 1]_vars

\* A create with a ttl_seconds of 59 or 86401 has been refused after two
\* sessions had been created, one with 60 and one with 86400 seconds.
C24_Witness ==
  /\ last = [op |-> "create_session", out |-> "ValidationError"]
  /\ Len(sessions) = 2
  /\ \E i, j \in 1..2 :
       /\ sessions[i].expires_at = sessions[i].created_at + 60
       /\ sessions[j].expires_at = sessions[j].created_at + 86400

\* C25 (SpecAtlas): Atlas load is all-or-nothing: a load or a registration
\* that fails leaves the loader cache and the registry unchanged, and no
\* Atlas is in the cache or in the registry with a file its manifest
\* declares missing from what was loaded.
C25_AtlasLoadAllOrNothing ==
  [][/\ last'.out \in {"AtlasNotFound", "AtlasValidationError"} =>
          /\ atlas_cache' = atlas_cache
          /\ atlases' = atlases
     /\ \A p \in AtlasPaths :
          atlas_cache'[p] # NoAtlas =>
            atlas_cache'[p].loaded = atlas_cache'[p].declared
     /\ \A id \in AtlasIds :
          atlases'[id] # NoAtlas => atlases'[id].loaded = atlases'[id].declared]_vars

\* C26: an execution record's status changes only along the edges of the
\* status graph, a completed, failed, rejected or cancelled record never
\* changes again, result and result_hash are set only in a completed record
\* and error only in a failed one. Violated: a handler result that cannot be
\* hashed leaves a failed record with its result set.
C26_StatusGraphAndPayload ==
  [][LET StatusEdges ==
           {<<"pending", "approved">>, <<"approved", "running">>,
            <<"pending", "running">>, <<"running", "completed">>,
            <<"running", "failed">>, <<"pending", "rejected">>,
            <<"pending", "cancelled">>}
     IN \A e \in 1..Len(executions') :
       /\ e <= Len(executions) =>
            \/ executions'[e] = executions[e]
            \/ <<executions[e].status, executions'[e].status>> \in StatusEdges
       /\ (executions'[e].result # "none" \/ executions'[e].result_hash # "none")
            => executions'[e].status = "completed"
       /\ executions'[e].error # "none" => executions'[e].status = "failed"]_vars

\* C27: every execution id has exactly one trace.action.invoked event, in the
\* trace of its request; a running execution has no terminal event; once the
\* handler has returned or raised, the id has exactly one terminal event in
\* that trace, trace.action.completed if the record is completed and
\* trace.action.failed if it is failed, never both, and it comes after the
\* invoked event. (A rejection's trace.action.failed names a grant, not an
\* execution.)
C27_OneInvokedOneTerminal ==
  \A e \in ExecutionIds :
    LET Named(event_type) ==
          {x \in TraceIds \X (1..MaxSteps) :
             /\ x[2] <= Len(events[x[1]])
             /\ events[x[1]][x[2]].event_type = event_type
             /\ events[x[1]][x[2]].ref = e
             /\ events[x[1]][x[2]].tag # "rejected"}
        invoked == Named("trace.action.invoked")
        completed == Named("trace.action.completed")
        failed == Named("trace.action.failed")
    IN IF e > Len(executions)
       THEN invoked = {} /\ completed = {} /\ failed = {}
       ELSE /\ Cardinality(invoked) = 1
            /\ \A x \in invoked \cup completed \cup failed :
                 x[1] = executions[e].trace_id
            /\ \A x \in invoked, y \in completed \cup failed : x[2] < y[2]
            /\ executions[e].status = "running" => completed = {} /\ failed = {}
            /\ executions[e].status = "completed" =>
                 Cardinality(completed) = 1 /\ failed = {}
            /\ executions[e].status = "failed" =>
                 Cardinality(failed) = 1 /\ completed = {}
            /\ executions[e].status \in {"running", "completed", "failed"}

\* C27 witness: one execution has failed and its trace holds the invoked
\* event followed by the failed one, while another execution is still running.
C27_Witness ==
  \E e \in 1..Len(executions), r \in 1..Len(executions) :
    /\ executions[e].status = "failed"
    /\ executions[r].status = "running"
    /\ \E i, j \in 1..Len(events[executions[e].trace_id]) :
         /\ i < j
         /\ events[executions[e].trace_id][i].event_type = "trace.action.invoked"
         /\ events[executions[e].trace_id][i].ref = e
         /\ events[executions[e].trace_id][j].event_type = "trace.action.failed"
         /\ events[executions[e].trace_id][j].ref = e

\* C28: invocations of one grant are serialized: at no time are two
\* executions of the same grant in status running. Violated: execute holds
\* the executor's lock only while it stores the record, not while it awaits
\* the handler.
C28_SameGrantSerialized ==
  \A e1, e2 \in 1..Len(executions) :
    (/\ e1 # e2
     /\ executions[e1].status = "running"
     /\ executions[e2].status = "running")
      => executions[e1].grant_id # executions[e2].grant_id

\* C29: when several grants exist for one (resolution_id, action_id), execute
\* uses the earliest-created grant that has not expired: with such a grant
\* in the table it is not refused as expired, and the execution it starts
\* names that grant. Violated: the lookup returns the first matching grant
\* whether expired or not.
C29_EarliestNonExpiredGrant ==
  [][last'.op = "execute" =>
       \A s \in ExecutorSessions, r \in ResolutionIds, a \in ActionIds,
          p \in Parameters :
         LET valid == {i \in Matching(r, a) : ~(now > grants[i].expires_at)}
             first == CHOOSE i \in valid : \A j \in valid : i <= j
         IN (ExecuteStart(s, r, a, p, s) /\ valid # {}) =>
              /\ last'.out # "ActionExpired"
              /\ Len(executions') = Len(executions) + 1 =>
                   executions'[Len(executions')].grant_id = grants[first].grant_id]_vars

\* C30: a deny ends the evaluation: whatever the engine's state and the
\* context, when a rule denies, the rules after the first denying rule are
\* not evaluated (the request lists of the rate limit
\* rules among them are unchanged), and the decision returned is a deny with
\* the denying rule's rule_id, the violations of the rules up to and
\* including it in rule order, and no constraints and no redactions.
C30_DenyShortCircuits ==
  \A c \in Contexts :
    LET ctx == ContextAt(c, now)
        denying == {i \in 1..Len(engine_rules) :
                      RuleEvaluate(engine_rules[i], ctx).effect = "deny"}
        k == CHOOSE i \in denying : \A j \in denying : i <= j
        withViolations ==
          SelectSeq(SubSeq(engine_rules, 1, k),
                    LAMBDA r : /\ RuleEvaluate(r, ctx).effect # "none"
                               /\ RuleEvaluate(r, ctx).violations # <<>>)
        returned == Evaluate(engine_rules, ctx)
    IN denying # {} =>
         /\ returned.effect = "deny"
         /\ returned.rule_id = engine_rules[k].rule_id
         /\ Len(returned.violations) = Len(withViolations)
         /\ \A i \in 1..Len(withViolations) :
              <<returned.violations[i]>> =
                RuleEvaluate(withViolations[i], ctx).violations
         /\ returned.constraints = {}
         /\ returned.redactions = {}
         /\ \A j \in (k + 1)..Len(engine_rules) :
              engine_rules[j].kind = "rate_limit" =>
                /\ RateTableAfter(requests, engine_rules, ctx,
                                  TRUE)[engine_rules[j].rule_id]
                     = requests[engine_rules[j].rule_id]
                /\ RateTableAfter(passed, engine_rules, ctx,
                                  FALSE)[engine_rules[j].rule_id]
                     = passed[engine_rules[j].rule_id]

\* C30 witness: an engine whose rules are a redaction rule, the deny pattern
\* rule and a rate limit rule, in this order, has returned the deny of the
\* pattern rule, and the rate limit rule after it has no request on record.
C30_Witness ==
  /\ Len(engine_rules) = 3
  /\ engine_rules[1].kind = "redaction"
  /\ engine_rules[2].kind = "deny_pattern"
  /\ engine_rules[3].kind = "rate_limit"
  /\ last.op = "evaluate"
  /\ last_decision.effect = "deny"
  /\ last_decision.rule_id = engine_rules[2].rule_id
  /\ last_decision.violations = <<engine_rules[2].rule_id>>
  /\ \A key \in RateKeys : requests[engine_rules[3].rule_id][key] = <<>>

\* C31 (SpecPolicyRaising): an exception a rule raises during
\* PolicyEngine.evaluate is not propagated: whenever the first rule to end
\* the evaluation is one that raises, evaluate returns a deny decision whose
\* rule_id is the raising rule's id. Violated: evaluate has no handler
\* around the call of the rule and the exception leaves it.
C31_RaisingRuleIsDeny ==
  [][last'.op = "evaluate" =>
       \A c \in Contexts :
         LET ctx == ContextAt(c, now)
             ending == {i \in 1..Len(engine_rules) :
                          RuleEvaluate(engine_rules[i], ctx).effect
                            \in {"deny", "raise"}}
             k == CHOOSE i \in ending : \A j \in ending : i <= j
         IN (/\ ending # {}
             /\ engine_rules[k] = RaisingRule
             /\ EvaluateCall(c)) =>
              /\ last_decision'.effect = "deny"
              /\ last_decision'.rule_id = RaisingRule.rule_id]_vars

C34_TerminalSessionFrozen ==
  [][\A s \in 1..Len(sessions) :
       sessions[s].state \in {"ended", "expired"} =>
         /\ s <= Len(sessions')
         /\ sessions'[s] = sessions[s]]_vars

\* C35 (SpecSubscribers): what a subscriber of a trace receives (the events
\* its stream has yielded, followed by those waiting in its queue) is a
\* subsequence, in log order and with no event twice, of the part of the
\* trace's log appended after the subscription was registered, so it holds
\* no earlier event and no event of another trace; the events missing from
\* it are as many as the emits that found the queue full, and a subscriber
\* whose queue was never full at an emit has received every event appended
\* since its registration.
C35_StreamIsLogSuffixSubsequence ==
  \A t \in TraceIds : \A i \in 1..Len(subscribers[t]) :
    LET RECURSIVE IsSubsequence(_, _)
        IsSubsequence(a, b) ==
          IF a = <<>> THEN TRUE
          ELSE IF b = <<>> THEN FALSE
          ELSE IF Head(a) = Head(b) THEN IsSubsequence(Tail(a), Tail(b))
          ELSE IsSubsequence(a, Tail(b))
        received == streams[t][i].yielded \o subscribers[t][i]
        since == SubSeq(events[t], streams[t][i].registered_at + 1,
                        Len(events[t]))
    IN /\ Len(streams[t]) = Len(subscribers[t])
       /\ IsSubsequence(received, since)
       /\ Len(received) + streams[t][i].dropped = Len(since)
       /\ \A k \in 1..Len(received) : received[k].session_id = t
       /\ streams[t][i].dropped = 0 => received = since

\* C35 witness: a subscriber registered after the first event of the trace
\* has been yielded the second event, holds the third in its queue and has
\* lost none.
C35_Witness ==
  \E t \in SubscriberTraces : \E i \in 1..Len(subscribers[t]) :
    /\ Len(events[t]) = 3
    /\ streams[t][i].registered_at = 1
    /\ streams[t][i].yielded = <<events[t][2]>>
    /\ subscribers[t][i] = <<events[t][3]>>
    /\ streams[t][i].dropped = 0

C37_FilterThenPaginate ==
  last.op = "get_trace_events" =>
    LET log == events[last.trace_id]
        q == last.query
        Matches(e) == /\ q.severity = "None" \/ e.severity = q.severity
                      /\ q.prefix = <<>> \/ StartsWith(e.event_type, q.prefix)
        F == {i \in 1..Len(log) : Matches(log[i])}
        Rank(i) == Cardinality({j \in F : j <= i})
        page == last.events
    IN  /\ last.total_count = Cardinality(F)
        /\ Len(page) = Cardinality({i \in F : /\ Rank(i) > q.offset
                                              /\ Rank(i) <= q.offset + q.limit})
        /\ \A k \in 1..Len(page) :
             \E i \in F : Rank(i) = q.offset + k /\ page[k] = log[i]
        /\ last.has_more = (\E i \in F : Rank(i) > q.offset + Len(page))

\* C37 witness: a query with a severity filter, offset 1 and limit 1 on a log
\* whose first event does not match: the page is the third event alone, the
\* second of the three matching ones, and more follow.
C37_Witness ==
  /\ last.op = "get_trace_events"
  /\ last.query.severity = "info" /\ last.query.offset = 1 /\ last.query.limit = 1
  /\ Len(events[QueryTrace]) = 4
  /\ events[QueryTrace][1].severity = "warn"
  /\ last.events = <<events[QueryTrace][3]>>
  /\ last.total_count = 3
  /\ last.has_more

\* C38 (SpecSessionEvents): the list get_all_events_for_session(s) returns
\* holds, for every trace, exactly the events of the trace's log whose
\* session_id is s, in the order in which they lie in that log, and nothing
\* else.
C38_SessionEventsKeepTraceOrder ==
  last.op = "get_all_events_for_session" =>
    /\ \A k \in 1..Len(last.events) : last.events[k].trace_id \in TraceIds
    /\ \A t \in TraceIds :
         SelectSeq(last.events, LAMBDA e : e.trace_id = t)
           = SelectSeq(events[t], LAMBDA e : e.session_id = last.session_id)

\* C38 witness: the list returned for a session starts with an event of
\* trace 2 and goes on with two different events of trace 1 that were
\* emitted later and at the same time.
C38_Witness ==
  /\ last.op = "get_all_events_for_session"
  /\ Len(last.events) = 3
  /\ last.events[1].trace_id = 2
  /\ last.events[2].trace_id = 1 /\ last.events[3].trace_id = 1
  /\ last.events[2].time = last.events[3].time
  /\ last.events[1].time < last.events[2].time
  /\ last.events[2] # last.events[3]

\* C39 (Spec): every event stored with the session_id of a session lies in
\* the log of the trace create returned for that session, whatever trace_id
\* the request that emitted it supplied, and no log holds events of two
\* sessions.
C39_SessionOwnsOneTrace ==
  \A t \in TraceIds :
    /\ \A i \in 1..Len(events[t]) :
         LET s == events[t][i].session_id
         IN  Known(s) => sessions[s].trace_id = t
    /\ \A i, j \in 1..Len(events[t]) :
         events[t][i].session_id = events[t][j].session_id

\* C40 (SpecApprovals): every entry of the pending-approval table is for a
\* grant that is in the grant table and has not been approved.
C40_PendingRefersToOpenGrant ==
  \A g \in pending_approvals :
    /\ GrantIndex(g) # 0
    /\ ~grants[GrantIndex(g)].approved
====
